---- MODULE Spec2Model ----
(***************************************************************************)
(* Dithering engine of node-phomemo-printer (src/dithering.js, the later   *)
(* of the two revisions the file holds, lines 444-1126).                   *)
(*                                                                         *)
(* An image is width, height and a flat RGBA buffer `data' indexed from 0, *)
(* as the callers hand it over (a pngjs PNG, whose data is a byte buffer:  *)
(* a stored number is truncated to an integer 0..255).  One call of        *)
(* dither(image, algorithm, options) is one step of the model.             *)
(***************************************************************************)
EXTENDS Integers, Sequences, FiniteSets, TLC

(* ------------------------------ bounds -------------------------------- *)
\* images have at most MaxPixels pixels (every width x height that fits)
MaxPixels == 4
\* a caller calls dither at most MaxCalls times on the same input
MaxCalls == 2

\* pixel colours <<R, G, B, A>> the input images are composed of
Palette == { <<10, 10, 10, 255>>, <<250, 250, 250, 0>>, <<98, 146, 114, 128>> }

\* JavaScript's undefined (an absent argument, a missing property)
undefined == "<undefined>"

VARIABLES
  width,      \* image.width
  height,     \* image.height
  data,       \* image.data, [0 .. width*height*4-1 -> 0..255]
  pre,        \* the buffer as it was when the call in `outcome' began
  algorithm,  \* the tag of the latest call
  options,    \* the options record of the latest call
  outcome,    \* "idle" | "returned" | the error the call threw
  ret,        \* what the call returned: "image", "customResult" or "none"
  calls,      \* number of calls made so far
  first,      \* the buffer the first call left behind
  input,      \* the buffer the caller's input file decodes to
  ed,         \* the errorDiffusion pass in progress: its locals and what it did
  printData,  \* the byte array getPrintDataFromPort builds
  pic,        \* the printable image getPrintDataFromPort reads
  sets,       \* the simpleEvenTonedScreening pass in progress: its locals
  ble         \* the CLI's device menu: its globals, locals and pending scans

vars ==
  <<width, height, data, pre, algorithm, options, outcome, ret, calls, first,
    input, ed, printData, pic, sets, ble>>

\* no errorDiffusion pass is being followed step by step
edIdle ==
  [pc |-> "idle", x |-> 0, y |-> 0, k |-> 0, error |-> 0, target |-> <<0, 0>>,
   visited |-> <<>>, log |-> <<>>, reads |-> {}, writes |-> {}]

\* no simpleEvenTonedScreening pass is being followed step by step
setsIdle ==
  [pc |-> "idle", x |-> 0, y |-> 0, curRow |-> <<>>, nextRow |-> <<>>,
   errors |-> <<>>]

\* the device menu has not been entered: no scan was begun, nothing found
bleIdle ==
  [pc |-> "idle", nearby |-> {}, scanDurationInMs |-> 0,
   discoveredDevices |-> <<>>, selectedPeripheral |-> [id |-> 0, scan |-> 0],
   listeners |-> 0, scanning |-> FALSE, invocations |-> {}, scans |-> 0,
   last |-> [id |-> 0, ms |-> 0, scanned |-> 0, cutBy |-> {}, after |-> <<>>],
   menu |-> {}, choice |-> <<>>, peripheral |-> [id |-> 0, scan |-> 0],
   characteristic |-> <<>>, tryAgain |-> FALSE]

\* no printable image has been loaded
noPic == [height |-> 0, rows |-> <<>>]

(* --------------------------- arithmetic -------------------------------- *)
Min(a, b) == IF a < b THEN a ELSE b
Max(a, b) == IF a > b THEN a ELSE b
\* Math.max(0, Math.min(255, v))
Clamp(v) == Max(0, Min(255, v))

\* Inputs <<R, G>> (as R*256+G; B is then the one value that makes
\* 299R+587G+114B a multiple of 1000) on which the double-precision sum
\* 0.299*R + 0.587*G + 0.114*B comes out just below its exact integer value,
\* so that Math.floor yields one less than the exact floor.
LumShort ==
  {
    72, 126, 144, 160, 178, 182, 236, 254, 257, 281, 305, 315, 514, 548,
    562, 586, 610, 630, 634, 648, 664, 668, 672, 682, 720, 805, 819, 829,
    853, 993, 1001, 1007, 1011, 1017, 1028, 1096, 1100, 1124, 1134, 1150, 1168, 1172,
    1186, 1202, 1206, 1210, 1220, 1244, 1260, 1268, 1278, 1333, 1339, 1343, 1357, 1367,
    1576, 1600, 1610, 1614, 1638, 1654, 1658, 1662, 1672, 1676, 1692, 1696, 1702, 1706,
    1710, 1724, 1748, 1849, 1853, 1867, 1871, 1887, 1991, 2015, 2025, 2031, 2035, 2043,
    2056, 2158, 2162, 2166, 2176, 2192, 2196, 2200, 2210, 2214, 2234, 2238, 2248, 2268,
    2286, 2292, 2300, 2302, 2337, 2447, 2477, 2535, 2543, 2594, 2666, 2680, 2682, 2686,
    2696, 2700, 2704, 2714, 2720, 2734, 2738, 2748, 2752, 2772, 2776, 2827, 2851, 2981,
    2985, 3033, 3039, 3043, 3047, 3049, 3057, 3059, 3067, 3152, 3182, 3186, 3190, 3194,
    3200, 3204, 3218, 3220, 3224, 3228, 3234, 3238, 3242, 3252, 3258, 3262, 3276, 3292,
    3300, 3310, 3324, 3341, 3389, 3433, 3437, 3467, 3471, 3523, 3567, 3577, 3622, 3632,
    3684, 3690, 3708, 3724, 3732, 3734, 3742, 3766, 3800, 3865, 3879, 3899, 3903, 3927,
    3971, 3975, 4005, 4009, 4013, 4023, 4057, 4063, 4067, 4112, 4136, 4170, 4318, 4324,
    4332, 4334, 4342, 4348, 4413, 4441, 4479, 4495, 4509, 4513, 4551, 4575, 4591, 4674,
    4684, 4712, 4824, 4917, 4923, 4927, 4955, 4995, 4999, 5003, 5013, 5017, 5033, 5037,
    5051, 5065, 5184, 5188, 5198, 5332, 5342, 5356, 5360, 5366, 5427, 5431, 5465, 5469,
    5499, 5503, 5507, 5533, 5537, 5541, 5551, 5555, 5579, 5599, 5609, 5617, 5654, 5698,
    5702, 5716, 5736, 5740, 5788, 5822, 5850, 5884, 6003, 6007, 6023, 6027, 6031, 6037,
    6041, 6045, 6055, 6061, 6079, 6164, 6304, 6326, 6350, 6356, 6364, 6366, 6374, 6380,
    6384, 6388, 6390, 6398, 6511, 6527, 6531, 6535, 6541, 6545, 6565, 6569, 6579, 6583,
    6599, 6603, 6607, 6623, 6631, 6641, 6651, 6682, 6706, 6760, 6764, 6778, 6812, 6816,
    6864, 6866, 6874, 6908, 6939, 7001, 7031, 7049, 7055, 7065, 7073, 7083, 7107, 7244,
    7264, 7282, 7316, 7354, 7368, 7374, 7412, 7416, 7422, 7429, 7487, 7515, 7531, 7539,
    7555, 7563, 7565, 7573, 7583, 7589, 7597, 7625, 7631, 7641, 7649, 7655, 7665, 7673,
    7675, 7730, 7734, 7748, 7758, 7788, 7798, 7802, 7806, 7820, 7836, 7840, 7854, 7888,
    7898, 7916, 7932, 7991, 7997, 8029, 8139, 8149, 8224, 8258, 8262, 8272, 8306, 8310,
    8336, 8340, 8344, 8358, 8382, 8467, 8501, 8505, 8529, 8543, 8655, 8673, 8679, 8683,
    8687, 8697, 8772, 8776, 8810, 8826, 8830, 8844, 8848, 8864, 8882, 8886, 8896, 8940,
    8958, 9129, 9163, 9173, 9191, 9254, 9276, 9296, 9314, 9330, 9334, 9338, 9348, 9364,
    9368, 9372, 9382, 9386, 9400, 9406, 9424, 9481, 9529, 9533, 9543, 9547, 9563, 9567,
    9615, 9673, 9681, 9697, 9705, 9707, 9711, 9715, 9721, 9725, 9780, 9830, 9834, 9838,
    9852, 9854, 9868, 9872, 9876, 9886, 9910, 9914, 9948, 9964, 9972, 9982, 10023, 10119,
    10153, 10157, 10171, 10187, 10197, 10215, 10256, 10290, 10294, 10318, 10338, 10342, 10358, 10362,
    10366, 10368, 10372, 10376, 10390, 10396, 10400, 10410, 10414, 10428, 10430, 10448, 10533, 10605,
    10639, 10657, 10719, 10729, 10735, 10739, 10749, 10804, 10832, 10862, 10880, 10896, 10904, 10914,
    10924, 10930, 10938, 10972, 10990, 10996, 11006, 11065, 11113, 11143, 11147, 11161, 11199, 11205,
    11239, 11247, 11257, 11284, 11308, 11332, 11362, 11370, 11380, 11386, 11396, 11404, 11414, 11420,
    11432, 11438, 11456, 11472, 11480, 11575, 11579, 11603, 11647, 11651, 11681, 11685, 11689, 11699,
    11812, 11846, 11856, 11884, 11980, 11996, 12004, 12014, 12020, 12028, 12089, 12093, 12151, 12167,
    12171, 12175, 12185, 12189, 12203, 12271, 12281, 12328, 12350, 12504, 12532, 12603, 12607, 12617,
    12637, 12671, 12675, 12679, 12689, 12713, 12717, 12727, 12747, 12836, 12840, 12874, 12908, 12956,
    12960, 13004, 13022, 13028, 13038, 13046, 13048, 13052, 13103, 13107, 13141, 13145, 13175, 13179,
    13193, 13195, 13199, 13213, 13217, 13227, 13231, 13255, 13279, 13289, 13295, 13305, 13364, 13412,
    13464, 13504, 13512, 13522, 13528, 13556, 13607, 13661, 13679, 13683, 13699, 13703, 13707, 13713,
    13717, 13721, 13731, 13737, 13741, 13771, 13878, 13950, 13984, 14002, 14036, 14046, 14052, 14169,
    14203, 14221, 14245, 14279, 14303, 14313, 14331, 14382, 14406, 14436, 14454, 14484, 14488, 14492,
    14564, 14580, 14588, 14615, 14631, 14649, 14703, 14711, 14721, 14727, 14735, 14745, 14755, 14773,
    14779, 14831, 14858, 14920, 14944, 14970, 14974, 14988, 14992, 15030, 15078, 15084, 15088, 15094,
    15129, 15135, 15139, 15163, 15193, 15211, 15227, 15235, 15245, 15263, 15269, 15287, 15303, 15311,
    15321, 15327, 15335, 15337, 15345, 15355, 15396, 15406, 15410, 15434, 15444, 15460, 15468, 15474,
    15478, 15482, 15496, 15512, 15516, 15520, 15530, 15550, 15554, 15560, 15570, 15588, 15612, 15677,
    15711, 15803, 15811, 15821, 15855, 15910, 15948, 15982, 15998, 16012, 16016, 16020, 16034, 16058,
    16177, 16181, 16215, 16267, 16301, 16335, 16345, 16359, 16363, 16369, 16377, 16379, 16390, 16414,
    16438, 16448, 16464, 16486, 16502, 16506, 16510, 16516, 16520, 16524, 16544, 16558, 16596, 16612,
    16620, 16630, 16636, 16647, 16681, 16701, 16735, 16805, 16835, 16845, 16853, 16863, 16879, 16934,
    16952, 16972, 16976, 17002, 17006, 17010, 17014, 17020, 17024, 17044, 17048, 17058, 17062, 17086,
    17112, 17161, 17205, 17209, 17239, 17243, 17257, 17291, 17295, 17343, 17353, 17359, 17369, 17377,
    17383, 17387, 17391, 17393, 17401, 17405, 17510, 17528, 17534, 17544, 17552, 17562, 17568, 17586,
    17620, 17644, 17654, 17662, 17723, 17743, 17795, 17833, 17867, 17877, 17887, 17905, 18000, 18034,
    18042, 18044, 18052, 18076, 18110, 18209, 18213, 18237, 18267, 18285, 18299, 18315, 18319, 18333,
    18395, 18401, 18411, 18421, 18470, 18480, 18518, 18534, 18542, 18552, 18558, 18576, 18586, 18604,
    18610, 18628, 18644, 18652, 18662, 18668, 18676, 18678, 18686, 18703, 18713, 18751, 18767, 18775,
    18785, 18819, 18823, 18837, 18861, 18877, 18895, 18911, 18919, 18929, 18946, 18962, 18984, 19008,
    19024, 19034, 19042, 19052, 19058, 19066, 19076, 19086, 19094, 19100, 19118, 19134, 19144, 19152,
    19196, 19251, 19289, 19323, 19327, 19343, 19361, 19375, 19560, 19642, 19652, 19676, 19686, 19694,
    19700, 19704, 19710, 19755, 19775, 19827, 19843, 19847, 19851, 19861, 19865, 19885, 19919, 19937,
    19943, 19951, 19953, 19961, 20008, 20046, 20076, 20176, 20186, 20241, 20279, 20313, 20317, 20331,
    20347, 20351, 20355, 20365, 20389, 20427, 20502, 20512, 20550, 20580, 20584, 20588, 20632, 20636,
    20660, 20666, 20676, 20684, 20694, 20700, 20708, 20710, 20718, 20724, 20728, 20732, 20745, 20779,
    20783, 20799, 20817, 20851, 20855, 20869, 20875, 20879, 20889, 20893, 20909, 20927, 20943, 20961,
    20975, 20979, 20985, 21066, 21084, 21118, 21174, 21184, 21200, 21228, 21236, 21283, 21341, 21359,
    21375, 21383, 21393, 21417, 21451, 21554, 21574, 21592, 21608, 21622, 21626, 21664, 21708, 21718,
    21750, 21756, 21787, 21841, 21849, 21859, 21875, 21883, 21893, 21899, 21917, 21951, 21969, 21983,
    21985, 21993, 21999, 22003, 22009, 22020, 22036, 22108, 22116, 22130, 22160, 22164, 22226, 22232,
    22260, 22270, 22277, 22307, 22311, 22325, 22349, 22363, 22365, 22383, 22407, 22417, 22435, 22441,
    22459, 22475, 22485, 22534, 22544, 22568, 22582, 22598, 22606, 22616, 22646, 22650, 22654, 22664,
    22668, 22708, 22740, 22750, 22756, 22760, 22959, 22975, 22983, 22993, 23007, 23011, 23017, 23027,
    23035, 23116, 23120, 23150, 23154, 23158, 23192, 23206, 23260, 23268, 23284, 23292, 23294, 23315,
    23353, 23387, 23391, 23439, 23483, 23501, 23535, 23582, 23586, 23624, 23654, 23658, 23674, 23678,
    23692, 23696, 23706, 23712, 23768, 23819, 23853, 23891, 23983, 24001, 24007, 24015, 24017, 24025,
    24031, 24035, 24039, 24041, 24049, 24059, 24140, 24144, 24162, 24178, 24182, 24186, 24192, 24196,
    24220, 24250, 24292, 24302, 24316, 24333, 24339, 24357, 24377, 24381, 24395, 24411, 24415, 24429,
    24463, 24491, 24507, 24515, 24517, 24525, 24559, 24648, 24682, 24700, 24724, 24758, 24792, 24915,
    24933, 24967, 25005, 25015, 25025, 25063, 25067, 25073, 25077, 25083, 25148, 25182, 25190, 25206,
    25214, 25224, 25234, 25240, 25248, 25292, 25300, 25316, 25324, 25326, 25334, 25340, 25399, 25405,
    25423, 25439, 25449, 25471, 25533, 25539, 25549, 25567, 25583, 25614, 25618, 25672, 25680, 25690,
    25706, 25714, 25724, 25748, 25782, 25790, 25800, 25816, 25885, 25913, 25923, 25939, 25947, 25957,
    25991, 25995, 26009, 26047, 26057, 26063, 26067, 26073, 26095, 26105, 26156, 26172, 26180, 26214,
    26224, 26238, 26248, 26266, 26272, 26282, 26290, 26324, 26334, 26348, 26358, 26389, 26427, 26429,
    26447, 26461, 26495, 26499, 26539, 26549, 26571, 26581, 26591, 26609, 26728, 26732, 26780, 26790,
    26806, 26814, 26824, 26842, 26876, 26927, 26965, 26999, 27023, 27037, 27075, 27214, 27314, 27324,
    27332, 27348, 27356, 27358, 27366, 27372, 27376, 27380, 27382, 27390, 27431, 27451, 27455, 27481,
    27485, 27503, 27523, 27527, 27537, 27565, 27599, 27615, 27623, 27633, 27722, 27756, 27770, 27814,
    27856, 27866, 27900, 27989, 28023, 28041, 28047, 28065, 28099, 28256, 28338, 28380, 28390, 28400,
    28479, 28531, 28555, 28581, 28589, 28623, 28641, 28647, 28657, 28665, 28667, 28746, 28764, 28780,
    28794, 28798, 28812, 28846, 28856, 28908, 28924, 28959, 28997, 29013, 29021, 29031, 29055, 29065,
    29071, 29083, 29089, 29107, 29123, 29131, 29141, 29230, 29246, 29254, 29280, 29288, 29298, 29302,
    29340, 29364, 29370, 29380, 29390, 29412, 29422, 29428, 29432, 29438, 29463, 29503, 29513, 29521,
    29535, 29555, 29579, 29597, 29613, 29631, 29647, 29665, 29671, 29679, 29689, 29706, 29712, 29716,
    29750, 29754, 29770, 29788, 29802, 29822, 29840, 29854, 29878, 29888, 29898, 29904, 29932, 29950,
    29973, 29977, 29987, 30003, 30011, 30021, 30045, 30055, 30073, 30079, 30097, 30113, 30121, 30131,
    30155, 30165, 30183, 30216, 30220, 30244, 30258, 30278, 30288, 30312, 30322, 30326, 30330, 30340,
    30370, 30398, 30412, 30422, 30432, 30460, 30487, 30491, 30525, 30545, 30559, 30563, 30579, 30587,
    30597, 30603, 30613, 30621, 30655, 30673, 30689, 30697, 30699, 30703, 30707, 30713, 30730, 30740,
    30748, 30758, 30774, 30778, 30792, 30796, 30812, 30820, 30826, 30830, 30844, 30868, 30878, 30888,
    30906, 30930, 30936, 30940, 30956, 30964, 30974, 31029, 31063, 31115, 31163, 31173, 31179, 31189,
    31207, 31312, 31330, 31354, 31372, 31388, 31422, 31440, 31545, 31645, 31687, 31697, 31820, 31854,
    31872, 31896, 31930, 31964, 31982, 31988, 31996, 31998, 32033, 32053, 32087, 32105, 32143, 32163,
    32169, 32215, 32231, 32239, 32249, 32320, 32354, 32362, 32372, 32378, 32430, 32464, 32472, 32595,
    32639, 32643, 32677, 32687, 32729, 32735, 32739, 32745, 32755, 32780, 32786, 32828, 32844, 32862,
    32876, 32886, 32896, 32914, 32920, 32938, 32954, 32972, 32988, 32996, 33006, 33012, 33020, 33047,
    33061, 33077, 33085, 33095, 33111, 33119, 33129, 33147, 33195, 33205, 33211, 33221, 33263, 33273,
    33290, 33294, 33318, 33344, 33352, 33362, 33386, 33396, 33404, 33414, 33420, 33428, 33454, 33462,
    33472, 33496, 33524, 33561, 33585, 33599, 33619, 33671, 33685, 33709, 33719, 33729, 33735, 33767,
    33777, 33781, 33787, 33804, 33852, 33866, 33886, 33900, 33904, 33910, 33918, 33928, 33944, 33952,
    33962, 33996, 34014, 34020, 34028, 34030, 34038, 34040, 34044, 34065, 34075, 34085, 34109, 34119,
    34137, 34143, 34153, 34171, 34175, 34201, 34243, 34247, 34253, 34263, 34271, 34281, 34287, 34297,
    34308, 34318, 34322, 34332, 34352, 34356, 34376, 34386, 34394, 34404, 34410, 34418, 34428, 34452,
    34462, 34486, 34496, 34504, 34514, 34520, 34548, 34575, 34579, 34589, 34609, 34623, 34627, 34643,
    34651, 34653, 34661, 34671, 34675, 34699, 34719, 34761, 34763, 34767, 34771, 34777, 34787, 34799,
    34809, 34894, 34942, 34994, 35004, 35020, 35052, 35056, 35062, 35127, 35161, 35179, 35203, 35237,
    35271, 35295, 35305, 35313, 35323, 35394, 35428, 35436, 35446, 35476, 35486, 35518, 35528, 35538,
    35556, 35572, 35580, 35703, 35727, 35918, 35936, 35950, 35994, 36000, 36046, 36052, 36062, 36072,
    36084, 36094, 36121, 36151, 36169, 36185, 36203, 36227, 36261, 36279, 36295, 36303, 36313, 36319,
    36327, 36329, 36337, 36347, 36364, 36418, 36426, 36436, 36460, 36470, 36474, 36488, 36508, 36518,
    36528, 36560, 36570, 36580, 36598, 36604, 36635, 36659, 36685, 36693, 36703, 36727, 36745, 36751,
    36769, 36795, 36803, 36847, 36926, 36940, 36942, 36960, 36974, 36978, 37026, 37036, 37042, 37052,
    37084, 37088, 37094, 37104, 37159, 37175, 37183, 37193, 37211, 37227, 37235, 37245, 37251, 37259,
    37269, 37285, 37293, 37303, 37327, 37337, 37345, 37351, 37355, 37361, 37369, 37371, 37382, 37392,
    37406, 37416, 37426, 37430, 37450, 37460, 37468, 37478, 37484, 37502, 37516, 37536, 37550, 37560,
    37566, 37570, 37588, 37604, 37612, 37622, 37628, 37649, 37663, 37683, 37717, 37725, 37727, 37735,
    37759, 37775, 37793, 37827, 37837, 37845, 37892, 37896, 37930, 37950, 37964, 37968, 37982, 37984,
    37992, 38002, 38006, 38016, 38032, 38074, 38078, 38084, 38094, 38104, 38116, 38126, 38132, 38136,
    38142, 38153, 38163, 38179, 38183, 38201, 38207, 38217, 38225, 38231, 38235, 38239, 38259, 38283,
    38293, 38311, 38317, 38327, 38335, 38345, 38351, 38361, 38369, 38375, 38379, 38383, 38393, 38397,
    38468, 38502, 38520, 38526, 38560, 38578, 38612, 38630, 38636, 38646, 38654, 38717, 38735, 38825,
    38835, 38851, 38879, 38887, 38992, 39010, 39034, 39068, 39102, 39120, 39225, 39243, 39259, 39277,
    39317, 39359, 39369, 39401, 39407, 39411, 39417, 39421, 39438, 39458, 39492, 39500, 39510, 39534,
    39544, 39550, 39568, 39602, 39620, 39636, 39644, 39654, 39660, 39668, 39678, 39759, 39767, 39825,
    39877, 39883, 39893, 39911, 39921, 40000, 40014, 40016, 40034, 40058, 40092, 40110, 40126, 40136,
    40144, 40233, 40249, 40267, 40301, 40319, 40343, 40349, 40359, 40391, 40401, 40411, 40466, 40482,
    40500, 40516, 40524, 40534, 40552, 40558, 40576, 40592, 40600, 40610, 40626, 40634, 40644, 40662,
    40668, 40678, 40686, 40692, 40696, 40702, 40723, 40749, 40757, 40767, 40791, 40801, 40809, 40857,
    40867, 40873, 40883, 40911, 40919, 40935, 40943, 40945, 40953, 40966, 40990, 41004, 41024, 41038,
    41042, 41058, 41066, 41076, 41082, 41100, 41116, 41134, 41152, 41168, 41176, 41237, 41253, 41257,
    41275, 41291, 41299, 41305, 41309, 41347, 41381, 41391, 41401, 41419, 41433, 41439, 41443, 41449,
    41453, 41459, 41480, 41490, 41524, 41532, 41542, 41548, 41558, 41566, 41576, 41580, 41582, 41590,
    41600, 41624, 41634, 41652, 41658, 41668, 41676, 41686, 41692, 41700, 41710, 41716, 41720, 41724,
    41751, 41761, 41781, 41789, 41791, 41799, 41813, 41815, 41823, 41833, 41847, 41901, 41909, 41915,
    41925, 41953, 41967, 41977, 42142, 42158, 42168, 42200, 42228, 42299, 42333, 42351, 42375, 42409,
    42443, 42532, 42566, 42584, 42656, 42666, 42676, 42718, 42724, 42728, 42734, 42744, 42799, 42833,
    42841, 42891, 42943, 42951, 42975, 42977, 42985, 42991, 42995, 43001, 43074, 43108, 43122, 43148,
    43184, 43190, 43200, 43252, 43307, 43323, 43341, 43375, 43399, 43433, 43451, 43467, 43556, 43574,
    43590, 43598, 43608, 43656, 43666, 43698, 43708, 43718, 43724, 43756, 43766, 43770, 43772, 43823,
    43831, 43865, 43875, 43933, 43941, 43975, 43985, 43999, 44009, 44019, 44027, 44040, 44064, 44078,
    44098, 44112, 44132, 44150, 44174, 44180, 44190, 44200, 44222, 44232, 44242, 44260, 44276, 44284,
    44286, 44327, 44331, 44365, 44379, 44383, 44407, 44423, 44431, 44441, 44457, 44475, 44493, 44527,
    44554, 44564, 44580, 44598, 44616, 44622, 44632, 44640, 44650, 44688, 44698, 44704, 44708, 44726,
    44750, 44756, 44760, 44766, 44776, 44798, 44831, 44835, 44855, 44865, 44873, 44889, 44907, 44923,
    44931, 44965, 44975, 44983, 44999, 45007, 45009, 45017, 45023, 45027, 45031, 45033, 45041, 45051,
    45068, 45088, 45102, 45106, 45122, 45130, 45132, 45136, 45140, 45154, 45164, 45178, 45212, 45216,
    45222, 45232, 45264, 45274, 45284, 45308, 45339, 45355, 45363, 45369, 45373, 45389, 45397, 45403,
    45407, 45421, 45431, 45455, 45465, 45473, 45483, 45499, 45507, 45517, 45551, 45606, 45640, 45716,
    45750, 45784, 45907, 45973, 45989, 46031, 46041, 46051, 46182, 46206, 46232, 46240, 46292, 46308,
    46316, 46318, 46326, 46332, 46397, 46415, 46497, 46507, 46549, 46559, 46575, 46630, 46648, 46664,
    46672, 46682, 46706, 46740, 46758, 46774, 46782, 46792, 46808, 46897, 46905, 46939, 46949, 46979,
    47015, 47021, 47031, 47041, 47073, 47079, 47083, 47089, 47093, 47114, 47138, 47164, 47172, 47206,
    47230, 47248, 47264, 47282, 47316, 47340, 47350, 47405, 47421, 47439, 47453, 47487, 47497, 47529,
    47539, 47549, 47555, 47583, 47601, 47628, 47638, 47654, 47672, 47696, 47706, 47724, 47730, 47748,
    47764, 47772, 47782, 47806, 47816, 47834, 47868, 47887, 47909, 47929, 47939, 47963, 47981, 48005,
    48011, 48021, 48063, 48073, 48083, 48111, 48115, 48121, 48125, 48142, 48162, 48176, 48196, 48214,
    48238, 48254, 48264, 48272, 48306, 48324, 48340, 48348, 48350, 48358, 48364, 48372, 48374, 48382,
    48429, 48443, 48447, 48463, 48471, 48481, 48495, 48519, 48529, 48539, 48557, 48581, 48587, 48591,
    48597, 48607, 48615, 48625, 48642, 48662, 48666, 48680, 48696, 48704, 48714, 48720, 48738, 48754,
    48762, 48772, 48790, 48796, 48806, 48814, 48824, 48830, 48840, 48848, 48858, 48892, 48929, 48933,
    48937, 48953, 48963, 48971, 48981, 48985, 48987, 49039, 49047, 49053, 49063, 49073, 49091, 49095,
    49105, 49115, 49121, 49125, 49280, 49296, 49338, 49348, 49396, 49400, 49406, 49471, 49547, 49581,
    49615, 49633, 49639, 49647, 49649, 49657, 49659, 49704, 49738, 49756, 49804, 49814, 49820, 49866,
    49872, 49882, 49900, 49916, 49971, 50013, 50023, 50081, 50115, 50123, 50133, 50246, 50296, 50328,
    50338, 50380, 50390, 50396, 50406, 50428, 50479, 50495, 50513, 50527, 50571, 50589, 50605, 50623,
    50639, 50657, 50663, 50671, 50675, 50681, 50712, 50728, 50746, 50780, 50798, 50846, 50856, 50862,
    50872, 50904, 50924, 50932, 50942, 50961, 50995, 51003, 51013, 51037, 51055, 51071, 51079, 51105,
    51113, 51123, 51147, 51157, 51175, 51228, 51236, 51250, 51270, 51318, 51328, 51360, 51370, 51380,
    51386, 51428, 51432, 51438, 51448, 51465, 51469, 51503, 51517, 51537, 51555, 51579, 51595, 51613,
    51647, 51665, 51679, 51681, 51689, 51691, 51695, 51699, 51705, 51716, 51736, 51766, 51770, 51788,
    51812, 51826, 51836, 51846, 51852, 51894, 51898, 51904, 51914, 51932, 51948, 51956, 51966, 52003,
    52007, 52027, 52037, 52045, 52055, 52061, 52103, 52113, 52137, 52147, 52155, 52165, 52171, 52181,
    52199, 52217, 52240, 52260, 52274, 52278, 52294, 52302, 52312, 52326, 52328, 52350, 52360, 52370,
    52412, 52414, 52422, 52428, 52438, 52460, 52470, 52474, 52476, 52489, 52493, 52507, 52511, 52527,
    52535, 52541, 52545, 52559, 52569, 52603, 52621, 52637, 52645, 52655, 52671, 52679, 52689, 52703,
    52707, 52713, 52723, 52731, 52744, 52760, 52768, 52778, 52794, 52802, 52808, 52812, 52816, 52830,
    52836, 52854, 52878, 52884, 52888, 52894, 52904, 52922, 52926, 52936, 52946, 52952, 52956, 52964,
    52974, 52980, 52988, 52990, 53045, 53087, 53111, 53127, 53137, 53179, 53189, 53223, 53231, 53241,
    53456, 53464, 53587, 53635, 53645, 53697, 53703, 53713, 53723, 53735, 53745, 53755, 53820, 53854,
    53878, 53912, 53930, 53946, 53964, 53980, 53988, 53998, 54012, 54035, 54069, 54077, 54087, 54159,
    54169, 54179, 54211, 54221, 54231, 54249, 54255, 54265, 54310, 54344, 54354, 54420, 54446, 54454,
    54488, 54539, 54543, 54577, 54591, 54611, 54629, 54677, 54687, 54693, 54703, 54735, 54739, 54745,
    54755, 54810, 54844, 54862, 54886, 54902, 54910, 54920, 54936, 54944, 54954, 54988, 54996, 55006,
    55012, 55020, 55022, 55030, 55036, 55059, 55077, 55101, 55111, 55119, 55129, 55135, 55159, 55169,
    55201, 55211, 55221, 55239, 55253, 55263, 55273, 55279, 55444, 55496, 55512, 55540, 55563, 55567,
    55581, 55601, 55615, 55619, 55633, 55643, 55667, 55677, 55683, 55725, 55729, 55735, 55745, 55755,
    55777, 55783, 55787, 55793, 55797, 55886, 55962, 55968, 55978, 56020, 56030, 56067, 56071, 56101,
    56109, 56119, 56125, 56143, 56157, 56191, 56201, 56211, 56229, 56243, 56253, 56259, 56263, 56281,
    56287, 56297, 56305, 56315, 56386, 56434, 56476, 56486, 56502, 56538, 56564, 56572, 56591, 56605,
    56609, 56623, 56625, 56633, 56639, 56643, 56657, 56661, 56667, 56685, 56709, 56715, 56719, 56725,
    56735, 56767, 56771, 56777, 56787, 56815, 56819, 56825, 56829, 56894, 56942, 56952, 56958, 56968,
    57010, 57020, 57052, 57062, 57068, 57072, 57078, 57091, 57095, 57099, 57109, 57113, 57133, 57143,
    57147, 57151, 57161, 57167, 57175, 57201, 57219, 57223, 57233, 57243, 57249, 57253, 57271, 57285,
    57287, 57291, 57295, 57301, 57305, 57311, 57319, 57329, 57339, 57418, 57466, 57476, 57528, 57534,
    57544, 57572, 57596, 57603, 57613, 57629, 57633, 57637, 57647, 57651, 57657, 57665, 57675, 57685,
    57689, 57691, 57709, 57715, 57743, 57757, 57761, 57767, 57777, 57787, 57795, 57799, 57809, 57819,
    57825, 57829, 57884, 57918, 57994, 58000, 58010, 58042, 58052, 58062, 58100, 58104, 58110, 58119,
    58123, 58133, 58137, 58141, 58151, 58157, 58165, 58171, 58175, 58185, 58189, 58199, 58203, 58209,
    58223, 58233, 58243, 58251, 58261, 58275, 58277, 58281, 58285, 58291, 58295, 58313, 58319, 58329,
    58337, 58343, 58347, 58353, 58361, 58363, 58400, 58408, 58418, 58422, 58442, 58460, 58508, 58518,
    58524, 58534, 58570, 58576, 58586, 58596, 58604, 58614, 58620, 58751, 58767, 58803, 58819, 58904,
    58908, 58926, 58942, 58950, 58960, 58984, 58990, 59000, 59032, 59042, 59052, 59070, 59084, 59094,
    59100, 59104, 59110, 59132, 59193, 59275, 59285, 59327, 59337, 59343, 59375, 59385, 59389, 59412,
    59432, 59442, 59446, 59450, 59464, 59498, 59508, 59514, 59552, 59560, 59566, 59576, 59604, 59608,
    59628, 59638, 59646, 59793, 59809, 59819, 59851, 59861, 59879, 59916, 59932, 59940, 59946, 59950,
    59954, 59974, 60008, 60022, 60026, 60032, 60042, 60060, 60064, 60074, 60084, 60090, 60094, 60112,
    60132, 60136, 60142, 60146, 60152, 60217, 60235, 60275, 60317, 60327, 60369, 60379, 60385, 60395,
    60432, 60436, 60440, 60450, 60454, 60456, 60470, 60474, 60488, 60492, 60516, 60540, 60542, 60550,
    60556, 60566, 60594, 60598, 60602, 60608, 60618, 60628, 60636, 60646, 60652, 60660, 60670, 60725,
    60783, 60799, 60835, 60841, 60851, 60903, 60936, 60940, 60944, 60958, 60964, 60974, 60978, 60982,
    60988, 60992, 60998, 61006, 61016, 61032, 61050, 61054, 61064, 61074, 61080, 61084, 61102, 61116,
    61118, 61126, 61132, 61136, 61142, 61164, 61174, 61180, 61225, 61259, 61307, 61317, 61349, 61359,
    61369, 61375, 61407, 61417, 61421, 61423, 61427, 61437, 61444, 61460, 61464, 61472, 61474, 61478,
    61482, 61496, 61506, 61516, 61520, 61540, 61546, 61584, 61588, 61592, 61598, 61608, 61626, 61630,
    61636, 61640, 61650, 61656, 61660, 61670, 61678, 61684, 61688, 61694, 61715, 61729, 61749, 61825,
    61831, 61841, 61851, 61883, 61893, 61927, 61935, 61937, 61945, 62058, 62074, 62126, 62168, 62215,
    62249, 62267, 62291, 62307, 62339, 62349, 62359, 62377, 62401, 62407, 62411, 62417, 62427, 62449,
    62459, 62582, 62634, 62650, 62660, 62692, 62702, 62708, 62712, 62739, 62753, 62757, 62773, 62781,
    62791, 62805, 62815, 62831, 62863, 62867, 62873, 62883, 62915, 62925, 62935, 62959, 62969, 63116,
    63158, 63168, 63220, 63239, 63243, 63247, 63257, 63273, 63281, 63291, 63295, 63315, 63339, 63349,
    63367, 63381, 63391, 63397, 63401, 63407, 63435, 63439, 63449, 63453, 63455, 63459, 63469, 63624,
    63640, 63692, 63702, 63734, 63740, 63747, 63761, 63763, 63777, 63781, 63795, 63805, 63839, 63857,
    63863, 63873, 63883, 63905, 63915, 63925, 63943, 63967, 63969, 63977, 63983, 63993, 64066, 64106,
    64148, 64158, 64200, 64210, 64216, 64244, 64263, 64267, 64271, 64281, 64285, 64299, 64305, 64319,
    64323, 64333, 64339, 64347, 64357, 64371, 64381, 64387, 64391, 64409, 64425, 64429, 64433, 64439,
    64443, 64449, 64459, 64481, 64487, 64491, 64497, 64501, 64507, 64511, 64548, 64614, 64630, 64666,
    64672, 64682, 64692, 64724, 64734, 64740, 64744, 64771, 64775, 64785, 64789, 64805, 64813, 64819,
    64823, 64829, 64837, 64847, 64863, 64895, 64899, 64905, 64915, 64933, 64947, 64957, 64963, 64967,
    64973, 64991, 65001, 65011, 65019, 65056, 65090, 65138, 65148, 65180, 65190, 65200, 65206, 65252,
    65268, 65276, 65278, 65289, 65295, 65305, 65309, 65313, 65323, 65327, 65329, 65337, 65347, 65371,
    65381, 65399, 65413, 65415, 65419, 65423, 65429, 65433, 65439, 65467, 65471, 65481, 65485, 65487,
    65491, 65501, 65519, 65523, 65529, 65533
  }

\* Math.floor(0.299 * r + 0.587 * g + 0.114 * b) in IEEE-754 doubles
Lum(r, g, b) ==
  LET s == 299 * r + 587 * g + 114 * b
  IN  IF s % 1000 = 0 /\ (r * 256 + g) \in LumShort
      THEN (s \div 1000) - 1
      ELSE s \div 1000

\* toGrayscale(image): R = G = B = luminance for every pixel, A is not written
toGrayscale(d) ==
  [i \in DOMAIN d |->
     IF i % 4 = 3 THEN d[i]
     ELSE LET p == i - (i % 4) IN Lum(d[p], d[p + 1], d[p + 2])]

\* a store that runs one sample too far, into the alpha sample
SetRGBA(d, idx, v) ==
  [d EXCEPT ![idx] = v, ![idx + 1] = v, ![idx + 2] = v, ![idx + 3] = v]

\* data[idx] = data[idx + 1] = data[idx + 2] = v
SetRGB(d, idx, v) == [d EXCEPT ![idx] = v, ![idx + 1] = v, ![idx + 2] = v]

\* how a call ends: `return image' with the buffer as d, or a throw of error e
\* with the buffer as d
Returned(d) == [data |-> d, outcome |-> "returned", ret |-> "image"]
Thrown(d, e) == [data |-> d, outcome |-> e, ret |-> "none"]

(* -------------------------- error diffusion ---------------------------- *)
\* an addError that bounds the flat index instead of the coordinates
addErrorFlatGuard(d, w, h, x, y, error, weight, divisor) ==
  LET idx == (y * w + x) * 4
  IN  IF idx < 0 \/ idx >= w * h * 4 THEN d
      ELSE [d EXCEPT ![idx] = Clamp((d[idx] * divisor + error * weight) \div divisor),
                     ![idx + 1] = Clamp((d[idx] * divisor + error * weight) \div divisor),
                     ![idx + 2] = Clamp((d[idx] * divisor + error * weight) \div divisor)]

\* an addError that rounds the sum to the nearest integer
addErrorRounded(d, w, h, x, y, error, weight, divisor) ==
  IF x < 0 \/ x >= w \/ y < 0 \/ y >= h THEN d
  ELSE LET idx == (y * w + x) * 4
           newVal == Clamp((2 * (d[idx] * divisor + error * weight) + divisor)
                             \div (2 * divisor))
       IN  SetRGB(d, idx, newVal)

\* addError(data, w, h, x, y, error, weight / divisor): out-of-bounds targets
\* are dropped; the sum is clamped to [0,255] and truncated by the byte store.
\* (data*divisor + error*weight) \div divisor is the floor of the exact sum;
\* for every byte, error and kernel entry it equals the double-precision one.
addError(d, w, h, x, y, error, weight, divisor) ==
  IF x < 0 \/ x >= w \/ y < 0 \/ y >= h THEN d
  ELSE LET idx == (y * w + x) * 4
           newVal == Clamp((d[idx] * divisor + error * weight) \div divisor)
       IN  SetRGB(d, idx, newVal)

\* an x offset that is never mirrored
unmirroredDx(reverse, dx) == dx

\* const effectiveDx = -dx on a reversed row, dx itself otherwise
mirroredDx(reverse, dx) == IF reverse THEN -dx ELSE dx

\* the kernel loop of one visited pixel: entries k .. Len(kernel) in order
RECURSIVE diffuse(_, _, _, _, _, _, _, _, _, _)
diffuse(d, w, h, kernel, divisor, x, y, error, reverse, k) ==
  IF k > Len(kernel) THEN d
  ELSE LET dx == kernel[k][1]
           dy == kernel[k][2]
           weight == kernel[k][3]
           effectiveDx == mirroredDx(reverse, dx)
       IN  diffuse(addError(d, w, h, x + effectiveDx, y + dy, error, weight, divisor),
                   w, h, kernel, divisor, x, y, error, reverse, k + 1)

\* an x loop body that stores the quantized value in the red sample only
edPixelRedOnly(d, w, h, kernel, divisor, x, y, reverse) ==
  LET idx == (y * w + x) * 4
      oldPixel == d[idx]
      newPixel == IF oldPixel < 128 THEN 0 ELSE 255
      error == oldPixel - newPixel
  IN  diffuse([d EXCEPT ![idx] = newPixel],
              w, h, kernel, divisor, x, y, error, reverse, 1)

\* the body of the x loop: quantize pixel (x,y) against 128, spread the error
edPixel(d, w, h, kernel, divisor, x, y, reverse) ==
  LET idx == (y * w + x) * 4
      oldPixel == d[idx]
      newPixel == IF oldPixel < 128 THEN 0 ELSE 255
      error == oldPixel - newPixel
  IN  diffuse(SetRGB(d, idx, newPixel), w, h, kernel, divisor, x, y, error, reverse, 1)

\* the n-th pixel visited (n = 0, 1, ...): rows top to bottom, a reversed row
\* from x = w-1 down to 0
edReverse(w, serpentine, n) == serpentine /\ ((n \div w) % 2 = 1)
edX(w, serpentine, n) ==
  IF edReverse(w, serpentine, n) THEN w - 1 - (n % w) ELSE n % w
edY(w, n) == n \div w

RECURSIVE edFrom(_, _, _, _, _, _, _)
edFrom(d, w, h, kernel, divisor, serpentine, n) ==
  IF n >= w * h \/ d = <<>> THEN d
  ELSE edFrom(edPixel(d, w, h, kernel, divisor,
                      edX(w, serpentine, n), edY(w, n), edReverse(w, serpentine, n)),
              w, h, kernel, divisor, serpentine, n + 1)

errorDiffusion(d, w, h, kernel, divisor, serpentine) ==
  edFrom(d, w, h, kernel, divisor, serpentine, 0)

\* the kernel tables, entries <<dx, dy, weight>>, and their divisors
floydSteinbergKernel == << <<1,0,7>>, <<-1,1,3>>, <<0,1,5>>, <<1,1,1>> >>
floydSteinbergDivisor == 16
atkinsonKernel ==
  << <<1,0,1>>, <<2,0,1>>, <<-1,1,1>>, <<0,1,1>>, <<1,1,1>>, <<0,2,1>> >>
atkinsonDivisor == 8
burkesKernel ==
  << <<1,0,8>>, <<2,0,4>>, <<-2,1,2>>, <<-1,1,4>>, <<0,1,8>>, <<1,1,4>>, <<2,1,2>> >>
burkesDivisor == 32
diffusionRowKernel == << <<1,0,1>>, <<2,0,1>> >>
diffusionRowDivisor == 2
diffusionColumnKernel == << <<0,1,1>>, <<0,2,1>> >>
diffusionColumnDivisor == 2
diffusion2DKernel == << <<1,0,3>>, <<-1,1,2>>, <<0,1,3>>, <<1,1,2>> >>
diffusion2DDivisor == 10
jarvisJudiceNinkeKernel ==
  << <<1,0,7>>, <<2,0,5>>, <<-2,1,3>>, <<-1,1,5>>, <<0,1,7>>, <<1,1,5>>, <<2,1,3>>,
     <<-2,2,1>>, <<-1,2,3>>, <<0,2,5>>, <<1,2,3>>, <<2,2,1>> >>
jarvisJudiceNinkeDivisor == 48
sierra2Kernel ==
  << <<1,0,4>>, <<2,0,3>>, <<-2,1,1>>, <<-1,1,2>>, <<0,1,3>>, <<1,1,2>>, <<2,1,1>>,
     <<-1,2,1>>, <<0,2,2>>, <<1,2,1>> >>
sierra2Divisor == 12
stuckiKernel ==
  << <<1,0,8>>, <<2,0,4>>, <<-2,1,2>>, <<-1,1,4>>, <<0,1,8>>, <<1,1,4>>, <<2,1,2>>,
     <<-2,2,1>>, <<-1,2,2>>, <<0,2,4>>, <<1,2,2>>, <<2,2,1>> >>
stuckiDivisor == 42

\* the nine diffusion functions: grayscale first, then the executor
floydSteinberg(d, w, h, opts) ==
  errorDiffusion(toGrayscale(d), w, h, floydSteinbergKernel, floydSteinbergDivisor, opts.serpentine)
atkinson(d, w, h, opts) ==
  errorDiffusion(toGrayscale(d), w, h, atkinsonKernel, atkinsonDivisor, opts.serpentine)
burkes(d, w, h, opts) ==
  errorDiffusion(toGrayscale(d), w, h, burkesKernel, burkesDivisor, opts.serpentine)
diffusionRow(d, w, h, opts) ==
  errorDiffusion(toGrayscale(d), w, h, diffusionRowKernel, diffusionRowDivisor, opts.serpentine)
diffusionColumn(d, w, h, opts) ==
  errorDiffusion(toGrayscale(d), w, h, diffusionColumnKernel, diffusionColumnDivisor, opts.serpentine)
diffusion2D(d, w, h, opts) ==
  errorDiffusion(toGrayscale(d), w, h, diffusion2DKernel, diffusion2DDivisor, opts.serpentine)
jarvisJudiceNinke(d, w, h, opts) ==
  errorDiffusion(toGrayscale(d), w, h, jarvisJudiceNinkeKernel, jarvisJudiceNinkeDivisor, opts.serpentine)
sierra2(d, w, h, opts) ==
  errorDiffusion(toGrayscale(d), w, h, sierra2Kernel, sierra2Divisor, opts.serpentine)
stucki(d, w, h, opts) ==
  errorDiffusion(toGrayscale(d), w, h, stuckiKernel, stuckiDivisor, opts.serpentine)

(* ---------------------- median threshold (THRESHOLD) -------------------- *)
\* values.sort((a, b) => a - b): ascending numeric sort
RECURSIVE insertAsc(_, _)
insertAsc(s, v) ==
  IF s = <<>> THEN <<v>>
  ELSE IF v < Head(s) THEN <<v>> \o s
  ELSE <<Head(s)>> \o insertAsc(Tail(s), v)

RECURSIVE sortAsc(_)
sortAsc(s) == IF s = <<>> THEN <<>> ELSE insertAsc(sortAsc(Tail(s)), Head(s))

\* twice the median of the sorted values (the median itself may end in .5)
median2(values) ==
  LET pixelCount == Len(values)
  IN  IF pixelCount % 2 = 1
      THEN 2 * values[(pixelCount \div 2) + 1]
      ELSE LET mid == pixelCount \div 2 IN values[mid] + values[mid + 1]

\* a threshold against the fixed middle value 128
thresholdFixed128(d0) ==
  LET d == toGrayscale(d0)
  IN  [i \in DOMAIN d |->
         IF i % 4 = 3 THEN d[i]
         ELSE IF d[i - (i % 4)] < 128 THEN 0 ELSE 255]

\* a threshold that makes a pixel white only above the median
thresholdAboveMedian(d0) ==
  LET d == toGrayscale(d0)
      pixelCount == (Cardinality(DOMAIN d)) \div 4
      values == sortAsc([j \in 1..pixelCount |-> d[(j - 1) * 4]])
      m2 == median2(values)
  IN  [i \in DOMAIN d |->
         IF i % 4 = 3 THEN d[i]
         ELSE IF 2 * d[i - (i % 4)] <= m2 THEN 0 ELSE 255]

\* threshold(image): white unless the luminance is below the median

threshold(d0) ==
  LET d == toGrayscale(d0)
      pixelCount == (Cardinality(DOMAIN d)) \div 4
      values == sortAsc([j \in 1..pixelCount |-> d[(j - 1) * 4]])
      m2 == median2(values)
  IN  [i \in DOMAIN d |->
         IF i % 4 = 3 THEN d[i]
         ELSE IF 2 * d[i - (i % 4)] < m2 THEN 0 ELSE 255]

(* ------------------------- ORDERED_BAYER -------------------------------- *)
\* the Bayer table with rows and columns exchanged
bayerMatrixTransposed ==
  << <<0, 12, 3, 15>>, <<8, 4, 11, 7>>, <<2, 14, 1, 13>>, <<10, 6, 9, 5>> >>
bayerMatrix ==
  << <<0, 8, 2, 10>>, <<12, 4, 14, 6>>, <<3, 11, 1, 9>>, <<15, 7, 13, 5>> >>
bayerMatrixSize == 4

\* an ordered dither with the two output values exchanged
orderedBayerInverted(d0, w, h) ==
  LET d == toGrayscale(d0)
      cells == bayerMatrixSize * bayerMatrixSize
  IN  [i \in DOMAIN d |->
         IF i % 4 = 3 THEN d[i]
         ELSE LET p == i \div 4
                  cell == bayerMatrix[((p \div w) % bayerMatrixSize) + 1]
                                     [((p % w) % bayerMatrixSize) + 1]
              IN  IF d[p * 4] * 2 * cells < (2 * cell + 1) * 255 THEN 255 ELSE 0]

\* threshold = (bayerMatrix[y % 4][x % 4] + 0.5) * (255 / 16), exact in doubles;
\* oldPixel < threshold  <=>  oldPixel * 2 * 16 < (2 * cell + 1) * 255
orderedBayer(d0, w, h) ==
  LET d == toGrayscale(d0)
      cells == bayerMatrixSize * bayerMatrixSize
  IN  [i \in DOMAIN d |->
         IF i % 4 = 3 THEN d[i]
         ELSE LET p == i \div 4
                  x == p % w
                  y == p \div w
                  cell == bayerMatrix[(y % bayerMatrixSize) + 1][(x % bayerMatrixSize) + 1]
                  oldPixel == d[p * 4]
              IN  IF oldPixel * 2 * cells < (2 * cell + 1) * 255 THEN 0 ELSE 255]

(* ------------------------ RANDOM, DITHERPUNK ---------------------------- *)
\* rand[n] = k stands for the n-th Math.random() of the call returning k/256
\* threshold = (k/256) * 255;  oldPixel < threshold <=> oldPixel*256 < k*255
randomDither(d0, rand) ==
  LET d == toGrayscale(d0)
  IN  [i \in DOMAIN d |->
         IF i % 4 = 3 THEN d[i]
         ELSE IF d[i - (i % 4)] * 256 < rand[i \div 4] * 255 THEN 0 ELSE 255]

\* noise twice as wide: (k/256 - 0.5) * 256 = k - 128
ditherpunkWideNoise(d0, rand) ==
  LET d == toGrayscale(d0)
  IN  [i \in DOMAIN d |->
         IF i % 4 = 3 THEN d[i]
         ELSE IF d[i - (i % 4)] + rand[i \div 4] < 256 THEN 0 ELSE 255]

\* noise = (k/256 - 0.5) * 128 = k/2 - 64;  data + noise < 128 <=> 2*data + k < 384
ditherpunk(d0, rand) ==
  LET d == toGrayscale(d0)
  IN  [i \in DOMAIN d |->
         IF i % 4 = 3 THEN d[i]
         ELSE IF 2 * d[i - (i % 4)] + rand[i \div 4] < 384 THEN 0 ELSE 255]

(* --------------------- EVEN_TONED_SCREENING ----------------------------- *)
\* a % n of JavaScript for a >= 0 and n # 0: the sign of n does not matter
JsRem(a, n) == IF n < 0 THEN a % (0 - n) ELSE a % n

\* the comparator a.dist - b.dist || a.i - b.i || a.j - b.j is negative for
\* cells a = <<i, j>> and b; dist2 is (2*dist)^2, which orders the cells as
\* dist = Math.sqrt((i - center)^2 + (j - center)^2) does
dist2(N, c) ==
  (2 * c[1] - (N - 1)) * (2 * c[1] - (N - 1)) + (2 * c[2] - (N - 1)) * (2 * c[2] - (N - 1))
\* a comparator that breaks ties by column, then row
cellBeforeColumnFirst(N, a, b) ==
  \/ dist2(N, a) < dist2(N, b)
  \/ dist2(N, a) = dist2(N, b) /\ a[2] < b[2]
  \/ dist2(N, a) = dist2(N, b) /\ a[2] = b[2] /\ a[1] < b[1]

\* the comparator itself: negative when cell a sorts before cell b

cellBefore(N, a, b) ==
  \/ dist2(N, a) < dist2(N, b)
  \/ dist2(N, a) = dist2(N, b) /\ a[1] < b[1]
  \/ dist2(N, a) = dist2(N, b) /\ a[1] = b[1] /\ a[2] < b[2]

\* a matrix whose ranks are counted from 1
generateEvenTonedMatrixFromOne(N) ==
  IF N < 1 THEN [i \in {} |-> <<>>]
  ELSE
  LET cells == (0..(N - 1)) \X (0..(N - 1))
      rankOf(i, j) == Cardinality({ c \in cells : cellBefore(N, c, <<i, j>>) })
  IN  [i \in 0..(N - 1) |-> [j \in 0..(N - 1) |-> rankOf(i, j) + 1]]

\* generateEvenTonedMatrix(N): matrix[i][j] = the position of cell (i,j) after
\* cells.sort(comparator), i.e. the number of cells the comparator puts before
\* it (the comparator is a strict total order on the cells).  Rows and columns
\* are indexed from 0; there are no rows at all when N < 1.
generateEvenTonedMatrix(N) ==
  IF N < 1 THEN [i \in {} |-> <<>>]
  ELSE
  LET cells == (0..(N - 1)) \X (0..(N - 1))
      rankOf(i, j) == Cardinality({ c \in cells : cellBefore(N, c, <<i, j>>) })
  IN  [i \in 0..(N - 1) |-> [j \in 0..(N - 1) |-> rankOf(i, j)]]

\* generateEvenTonedMatrix depends on N alone: its results for the sizes that
\* occur (8 is the default), each built once
MatrixSizes == {0, 1, 2, 3, -1}
screeningMatrices ==
  [N \in (MatrixSizes \ {0}) \cup {8} |-> generateEvenTonedMatrix(N)]

\* the pixel loop of evenTonedScreening from pixel p on (row-major order);
\* screeningMatrix is the matrix generated before the loop.
\* threshold = (cell + 0.5) * (255 / (numCells - 1)); with numCells = 1 the
\* scale is Infinity and every pixel is below the threshold.
RECURSIVE etsFrom(_, _, _, _, _)
etsFrom(d, w, h, matrixSize, p) ==
  IF p >= w * h \/ d = <<>> THEN d
  ELSE LET x == p % w
           y == p \div w
           idx == (y * w + x) * 4
           numCells == matrixSize * matrixSize
           screeningMatrix == screeningMatrices[matrixSize]
           cell == screeningMatrix[JsRem(y, matrixSize)][JsRem(x, matrixSize)]
           oldPixel == d[idx]
           newPixel == IF numCells = 1 THEN 0
                       ELSE IF oldPixel * 2 * (numCells - 1) < (2 * cell + 1) * 255
                            THEN 0 ELSE 255
       IN  etsFrom(SetRGB(d, idx, newPixel), w, h, matrixSize, p + 1)

\* evenTonedScreening(image, opts).  Result: the buffer and how the call ended.
\* screeningMatrix[y % matrixSize] is undefined when the matrix has no such
\* row, and indexing undefined throws a TypeError (at the first pixel, after
\* the grayscale pass).
evenTonedScreening(d0, w, h, opts) ==
  LET d == toGrayscale(d0)
      matrixSize == IF opts.matrixSize = 0 THEN 8 ELSE opts.matrixSize
      screeningMatrix == screeningMatrices[matrixSize]
  IN  IF JsRem(0, matrixSize) \notin DOMAIN screeningMatrix
      THEN Thrown(d, "TypeError")
      ELSE Returned(etsFrom(d, w, h, matrixSize, 0))

(* ------------- error buffers of the two hybrid algorithms --------------- *)
\* The row error buffers hold fractions (error * 7/16, ...).  They are kept as
\* integers in units of 1/Unit; a share of 1/16 of an error that has passed
\* through k pixels needs 16^(k+1) to divide Unit, which holds for every image
\* with width + height - 2 <= 4.  Sixteenth has no value otherwise.
Unit == 16^5
Sixteenth(e) == IF e % 16 = 0 THEN e \div 16 ELSE CHOOSE q \in {} : TRUE
Quarter(e) == IF e % 4 = 0 THEN e \div 4 ELSE CHOOSE q \in {} : TRUE
\* new Array(w).fill(0)
zeros(w) == [x \in 0..(w - 1) |-> 0]

(* ------------------ SIMPLE_EVEN_TONED_SCREENING ------------------------- *)
\* an x loop body that sends the 5/16 share to column x+1 of the next row and
\* the 1/16 share to column x
setsPixelSharesSwapped(st, w, h, x, y) ==
  LET idx == (y * w + x) * 4
      value == st.d[idx] * Unit + st.curRow[x]
      thresh == Max(0, Min(255 * Unit, 128 * Unit + Quarter(st.curRow[x])))
      newPixel == IF value < thresh THEN 0 ELSE 255
      error == value - newPixel * Unit
      cur1 == IF x + 1 < w
              THEN [st.curRow EXCEPT ![x + 1] = @ + 7 * Sixteenth(error)]
              ELSE st.curRow
      next1 == IF y + 1 < h
               THEN [st.nextRow EXCEPT ![x] = @ + Sixteenth(error)]
               ELSE st.nextRow
      next2 == IF y + 1 < h /\ x + 1 < w
               THEN [next1 EXCEPT ![x + 1] = @ + 5 * Sixteenth(error)]
               ELSE next1
  IN  [d |-> SetRGB(st.d, idx, newPixel), curRow |-> cur1, nextRow |-> next2]

\* the body of the x loop; st = [d, curRow, nextRow]
setsPixel(st, w, h, x, y) ==
  LET idx == (y * w + x) * 4
      value == st.d[idx] * Unit + st.curRow[x]
      \* 128 + curRow[x] * biasFactor with biasFactor = 0.25, clamped to [0,255]
      thresh == Max(0, Min(255 * Unit, 128 * Unit + Quarter(st.curRow[x])))
      newPixel == IF value < thresh THEN 0 ELSE 255
      error == value - newPixel * Unit
      cur1 == IF x + 1 < w
              THEN [st.curRow EXCEPT ![x + 1] = @ + 7 * Sixteenth(error)]
              ELSE st.curRow
      next1 == IF y + 1 < h
               THEN [st.nextRow EXCEPT ![x] = @ + 5 * Sixteenth(error)]
               ELSE st.nextRow
      next2 == IF y + 1 < h /\ x + 1 < w
               THEN [next1 EXCEPT ![x + 1] = @ + Sixteenth(error)]
               ELSE next1
  IN  [d |-> SetRGB(st.d, idx, newPixel), curRow |-> cur1, nextRow |-> next2]

RECURSIVE setsRow(_, _, _, _, _)
setsRow(st, w, h, x, y) ==
  IF x >= w THEN st ELSE setsRow(setsPixel(st, w, h, x, y), w, h, x + 1, y)

\* rows y .. h-1; after a row: curRow = nextRow.slice(); nextRow.fill(0)
RECURSIVE setsFrom(_, _, _, _)
setsFrom(st, w, h, y) ==
  IF y >= h THEN st
  ELSE LET r == setsRow(st, w, h, 0, y)
       IN  setsFrom([d |-> r.d, curRow |-> r.nextRow, nextRow |-> zeros(w)], w, h, y + 1)

simpleEvenTonedScreening(d0, w, h) ==
  setsFrom([d |-> toGrayscale(d0), curRow |-> zeros(w), nextRow |-> zeros(w)], w, h, 0).d

(* --------------------- EVEN_BETTER_SCREENING ---------------------------- *)
\* generateDefaultTM(width, height): every entry is Math.floor(r * 41) - 20 for
\* a fresh draw r = k/256.  Only the entries an image of w x h addresses are
\* built (the default matrix is 256 x 256); entry (y, x) takes draw y*w + x.
generateDefaultTM(tmwid, tmheight, w, h, rand) ==
  [r \in 1..Min(tmheight, h) |->
     [c \in 1..Min(tmwid, w) |-> ((rand[(r - 1) * w + (c - 1)] * 41) \div 256) - 20]]

\* the body of the x loop; st = [d, errorBuffer, nextError, outcome].
\* tmmat[y % tmheight] undefined: indexing it throws a TypeError before the
\* pixel is written.  tmmat[..][x % tmwid] undefined: threshold is NaN, the
\* comparison value < NaN is false and the pixel becomes 255.
ebsPixel(st, w, h, x, y, tmmat, tmwid, tmheight) ==
  LET idx == (y * w + x) * 4
      value == st.d[idx] * Unit + st.errorBuffer[x]
      row == (y % tmheight) + 1
      col == (x % tmwid) + 1
  IN  IF row > Len(tmmat) THEN [st EXCEPT !.outcome = "TypeError"]
      ELSE
      LET isNaN == col > Len(tmmat[row])
          thresh == Clamp(128 + tmmat[row][col])
          newPixel == IF (~isNaN) /\ value < thresh * Unit THEN 0 ELSE 255
          error == value - newPixel * Unit
          cur1 == IF x + 1 < w
                  THEN [st.errorBuffer EXCEPT ![x + 1] = @ + 7 * Sixteenth(error)]
                  ELSE st.errorBuffer
          next1 == IF y + 1 < h
                   THEN [st.nextError EXCEPT ![x] = @ + 5 * Sixteenth(error)]
                   ELSE st.nextError
          next2 == IF y + 1 < h /\ x + 1 < w
                   THEN [next1 EXCEPT ![x + 1] = @ + Sixteenth(error)]
                   ELSE next1
      IN  [d |-> SetRGB(st.d, idx, newPixel), errorBuffer |-> cur1,
           nextError |-> next2, outcome |-> st.outcome]

RECURSIVE ebsRow(_, _, _, _, _, _, _, _)
ebsRow(st, w, h, x, y, tmmat, tmwid, tmheight) ==
  IF x >= w \/ st.outcome # "returned" THEN st
  ELSE ebsRow(ebsPixel(st, w, h, x, y, tmmat, tmwid, tmheight),
              w, h, x + 1, y, tmmat, tmwid, tmheight)

\* rows y .. h-1; nextError is fresh for each row, errorBuffer = nextError after it
RECURSIVE ebsFrom(_, _, _, _, _, _, _)
ebsFrom(st, w, h, y, tmmat, tmwid, tmheight) ==
  IF y >= h \/ st.outcome # "returned" THEN st
  ELSE LET r == ebsRow([st EXCEPT !.nextError = zeros(w)], w, h, 0, y, tmmat, tmwid, tmheight)
       IN  ebsFrom([r EXCEPT !.errorBuffer = r.nextError], w, h, y + 1, tmmat, tmwid, tmheight)

\* evenBetterScreening(image, opts); an option given as 0 (or absent) is falsy
\* and takes its default.  levels is read and not used.
\* a screening that generates its TM array even when the caller supplies one
evenBetterScreeningFreshTM(d0, w, h, opts, rand) ==
  LET tmwid == IF opts.tmwid = 0 THEN 256 ELSE opts.tmwid
      tmheight == IF opts.tmheight = 0 THEN 256 ELSE opts.tmheight
      tmmat == generateDefaultTM(tmwid, tmheight, w, h, rand)
      r == ebsFrom([d |-> toGrayscale(d0), errorBuffer |-> zeros(w),
                    nextError |-> zeros(w), outcome |-> "returned"],
                   w, h, 0, tmmat, tmwid, tmheight)
  IN  IF r.outcome = "returned" THEN Returned(r.d) ELSE Thrown(r.d, r.outcome)

\* a screening that honours levels: with more than two levels the returned
\* samples are the gray values rounded to the nearest of `levels' output values
evenBetterScreeningLevels(d0, w, h, opts, rand) ==
  LET levels == IF opts.levels = 0 THEN 2 ELSE opts.levels
      tmwid == IF opts.tmwid = 0 THEN 256 ELSE opts.tmwid
      tmheight == IF opts.tmheight = 0 THEN 256 ELSE opts.tmheight
      tmmat == IF opts.tmmat.given THEN opts.tmmat.m
               ELSE generateDefaultTM(tmwid, tmheight, w, h, rand)
      r == ebsFrom([d |-> toGrayscale(d0), errorBuffer |-> zeros(w),
                    nextError |-> zeros(w), outcome |-> "returned"],
                   w, h, 0, tmmat, tmwid, tmheight)
      g == toGrayscale(d0)
  IN  IF r.outcome # "returned" THEN Thrown(r.d, r.outcome)
      ELSE IF levels <= 2 THEN Returned(r.d)
      ELSE Returned([i \in DOMAIN g |->
                       IF i % 4 = 3 THEN g[i]
                       ELSE (((g[i] * (levels - 1) + 127) \div 255) * 255)
                              \div (levels - 1)])

evenBetterScreening(d0, w, h, opts, rand) ==
  LET levels == IF opts.levels = 0 THEN 2 ELSE opts.levels
      tmwid == IF opts.tmwid = 0 THEN 256 ELSE opts.tmwid
      tmheight == IF opts.tmheight = 0 THEN 256 ELSE opts.tmheight
      tmmat == IF opts.tmmat.given THEN opts.tmmat.m
               ELSE generateDefaultTM(tmwid, tmheight, w, h, rand)
      r == ebsFrom([d |-> toGrayscale(d0), errorBuffer |-> zeros(w),
                    nextError |-> zeros(w), outcome |-> "returned"],
                   w, h, 0, tmmat, tmwid, tmheight)
  IN  IF r.outcome = "returned" THEN Returned(r.d) ELSE Thrown(r.d, r.outcome)

(* ------------------------------ dispatcher ------------------------------ *)
\* the ALGORITHMS object: key |-> tag.  The CUSTOM entry is commented out in
\* the source, so the object has no such key.
ALGORITHMS ==
  [k \in { "FLOYD_STEINBERG", "ATKINSON", "THRESHOLD", "BURKES", "DIFFUSION_ROW",
           "DIFFUSION_COLUMN", "DIFFUSION_2D", "JARVIS_JUDICE_NINKE", "SIERRA2",
           "STUCKI", "GRAYSCALE", "ORDERED_BAYER", "RANDOM", "DITHERPUNK",
           "EVEN_TONED_SCREENING", "SIMPLE_EVEN_TONED_SCREENING",
           "EVEN_BETTER_SCREENING" } |-> k]

\* ALGORITHMS.key: reading a property an object does not have gives undefined
Get(obj, key) == IF key \in DOMAIN obj THEN obj[key] ELSE undefined

\* caller-supplied transforms for options.custom: what each does to the buffer
\* and what it returns ("image": the image it was given)
CustomFunctions == {"invert", "keep"}
applyCustom(fn, d) ==
  IF fn = "invert"
  THEN [data |-> [i \in DOMAIN d |-> IF i % 4 = 3 THEN d[i] ELSE 255 - d[i]],
        ret |-> "image"]
  ELSE [data |-> d, ret |-> "customResult"]


\* dither(image, algorithm, options): the switch compares algorithm with each
\* case value in order (strict equality) and takes the first that matches
dither(d, w, h, alg, opts, rand) ==
  IF alg = Get(ALGORITHMS, "FLOYD_STEINBERG") THEN Returned(floydSteinberg(d, w, h, opts))
  ELSE IF alg = Get(ALGORITHMS, "ATKINSON") THEN Returned(atkinson(d, w, h, opts))
  ELSE IF alg = Get(ALGORITHMS, "THRESHOLD") THEN Returned(threshold(d))
  ELSE IF alg = Get(ALGORITHMS, "BURKES") THEN Returned(burkes(d, w, h, opts))
  ELSE IF alg = Get(ALGORITHMS, "DIFFUSION_ROW") THEN Returned(diffusionRow(d, w, h, opts))
  ELSE IF alg = Get(ALGORITHMS, "DIFFUSION_COLUMN") THEN Returned(diffusionColumn(d, w, h, opts))
  ELSE IF alg = Get(ALGORITHMS, "DIFFUSION_2D") THEN Returned(diffusion2D(d, w, h, opts))
  ELSE IF alg = Get(ALGORITHMS, "JARVIS_JUDICE_NINKE") THEN Returned(jarvisJudiceNinke(d, w, h, opts))
  ELSE IF alg = Get(ALGORITHMS, "SIERRA2") THEN Returned(sierra2(d, w, h, opts))
  ELSE IF alg = Get(ALGORITHMS, "STUCKI") THEN Returned(stucki(d, w, h, opts))
  ELSE IF alg = Get(ALGORITHMS, "CUSTOM")
       THEN IF opts.custom \in CustomFunctions
            THEN LET r == applyCustom(opts.custom, d)
                 IN  [data |-> r.data, outcome |-> "returned", ret |-> r.ret]
            ELSE Thrown(d, "MissingCustomHandler")
  ELSE IF alg = Get(ALGORITHMS, "GRAYSCALE") THEN Returned(toGrayscale(d))
  ELSE IF alg = Get(ALGORITHMS, "ORDERED_BAYER") THEN Returned(orderedBayer(d, w, h))
  ELSE IF alg = Get(ALGORITHMS, "RANDOM") THEN Returned(randomDither(d, rand))
  ELSE IF alg = Get(ALGORITHMS, "DITHERPUNK") THEN Returned(ditherpunk(d, rand))
  ELSE IF alg = Get(ALGORITHMS, "EVEN_TONED_SCREENING")
       THEN evenTonedScreening(d, w, h, opts)
  ELSE IF alg = Get(ALGORITHMS, "SIMPLE_EVEN_TONED_SCREENING")
       THEN Returned(simpleEvenTonedScreening(d, w, h))
  ELSE IF alg = Get(ALGORITHMS, "EVEN_BETTER_SCREENING")
       THEN evenBetterScreening(d, w, h, opts, rand)
  ELSE Thrown(d, "UnknownAlgorithm")

(* ------------------------------ the callers ----------------------------- *)
DiffusionTags ==
  { "FLOYD_STEINBERG", "ATKINSON", "BURKES", "DIFFUSION_ROW", "DIFFUSION_COLUMN",
    "DIFFUSION_2D", "JARVIS_JUDICE_NINKE", "SIERRA2", "STUCKI" }

\* the documented closed tag set
BuiltInTags ==
  DiffusionTags \cup
  { "THRESHOLD", "GRAYSCALE", "ORDERED_BAYER", "RANDOM", "DITHERPUNK",
    "EVEN_TONED_SCREENING", "SIMPLE_EVEN_TONED_SCREENING", "EVEN_BETTER_SCREENING" }
TagSet == BuiltInTags \cup {"CUSTOM"}

\* what a caller may pass as `algorithm': a tag, another string, or nothing
Tags == TagSet \cup {"BOGUS", undefined}

\* options = {}: every property absent.  A numeric option that is absent is
\* written 0 (both are falsy and take the default); custom is "absent", a
\* value that is not a function ("notfn"), or one of CustomFunctions.
DefaultOptions ==
  [serpentine |-> FALSE, custom |-> "absent", matrixSize |-> 0, levels |-> 0,
   tmwid |-> 0, tmheight |-> 0, tmmat |-> [given |-> FALSE, m |-> <<>>]]

\* options of EVEN_BETTER_SCREENING: <<tmmat or <<>> for none, tmwid = tmheight, levels>>
TMZero1 == << <<0>> >>
TMZero2 == << <<0, 0>>, <<0, 0>> >>
TMMixed == << <<-20, 20>>, <<200, -200>> >>
EBSChoices ==
  { <<FALSE, <<>>, 0, 0>>, <<FALSE, <<>>, 1, 0>>,
    <<TRUE, TMZero1, 1, 0>>, <<TRUE, TMZero1, 2, 0>>,
    <<TRUE, TMZero2, 0, 0>>, <<TRUE, TMZero2, 2, 0>>, <<TRUE, TMZero2, 2, 4>>,
    <<TRUE, TMMixed, 2, 0>>, <<TRUE, TMMixed, 2, 4>>, <<TRUE, <<>>, 0, 0>> }

OptionsFor(a) ==
  IF a \in DiffusionTags
  THEN { [DefaultOptions EXCEPT !.serpentine = s] : s \in BOOLEAN }
  ELSE IF a = "EVEN_TONED_SCREENING"
  THEN { [DefaultOptions EXCEPT !.matrixSize = n] : n \in MatrixSizes }
  ELSE IF a = "EVEN_BETTER_SCREENING"
  THEN { [DefaultOptions EXCEPT !.tmmat = [given |-> c[1], m |-> c[2]],
                                !.tmwid = c[3], !.tmheight = c[3], !.levels = c[4]] :
         c \in EBSChoices }
  ELSE IF a \in {"CUSTOM", "BOGUS", undefined}
  THEN { [DefaultOptions EXCEPT !.custom = c] :
         c \in {"absent", "notfn"} \cup CustomFunctions }
  ELSE {DefaultOptions}

\* the draws of one call: the n-th Math.random() returns rand[n]/256
StreamPatterns == { <<0>>, <<255>>, <<100, 200>>, <<200, 30, 128>> }
MaxDraws == 64
RandomStreams ==
  { [n \in 0..(MaxDraws - 1) |-> s[(n % Len(s)) + 1]] : s \in StreamPatterns }
NoDraws == [n \in {} |-> 0]
\* the algorithms whose code reaches a Math.random() call
UsesRandom(a) == a \in {"RANDOM", "DITHERPUNK", "EVEN_BETTER_SCREENING"}

Dims == { wh \in (1..MaxPixels) \X (1..MaxPixels) : wh[1] * wh[2] <= MaxPixels }

\* the colours of the input: pixel p (row-major) has colour
\* fill[(p % Len(fill)) + 1]
Fills == [1..4 -> Palette]

\* the RGBA buffer of an image of n pixels filled with `fill'
Buffer(n, fill) ==
  [i \in 0..(4 * n - 1) |-> fill[((i \div 4) % Len(fill)) + 1][(i % 4) + 1]]

Init ==
  /\ \E wh \in Dims :
       /\ width = wh[1]
       /\ height = wh[2]
       /\ \E fill \in Fills : data = Buffer(wh[1] * wh[2], fill)
  /\ input = data
  /\ pre = data
  /\ first = data
  /\ algorithm = undefined
  /\ options = DefaultOptions
  /\ outcome = "idle"
  /\ ret = "none"
  /\ calls = 0
  /\ ed = edIdle
  /\ printData = <<>>
  /\ pic = noPic
  /\ sets = setsIdle
  /\ ble = bleIdle

\* one call dither(image, a, o); a later call repeats the arguments of the first
Call(a, o, rand) ==
  \E r \in {dither(data, width, height, a, o, rand)} :
      /\ pre' = data
      /\ data' = r.data
      /\ outcome' = r.outcome
      /\ ret' = r.ret
      /\ algorithm' = a
      /\ options' = o
      /\ calls' = calls + 1
      /\ first' = IF calls = 0 THEN r.data ELSE first
      /\ UNCHANGED <<ble, width, height, input, ed, printData, pic, sets>>

\* a caller calls dither with a tag of T on the buffer it holds
CallWith(T) ==
  /\ calls < MaxCalls
  /\ outcome \in {"idle", "returned"}
  /\ \E a \in T : \E o \in OptionsFor(a) :
       /\ calls > 0 => (a = algorithm /\ o = options)
       /\ IF UsesRandom(a)
          THEN \E rand \in RandomStreams : Call(a, o, rand)
          ELSE Call(a, o, NoDraws)

Dither == CallWith(Tags)

\* the caller reads the same input again for its next call
Reload ==
  /\ calls > 0
  /\ calls < MaxCalls
  /\ outcome = "returned"
  /\ data' = input
  /\ outcome' = "idle"
  /\ ret' = "none"
  /\ UNCHANGED <<ble, width, height, input, pre, algorithm, options, calls, first,
                 ed, printData, pic, sets>>

Next == Dither \/ Reload

Spec == Init /\ [][Next]_vars

(* ---------------- larger images, integer-only algorithms ---------------- *)
\* Square images of side MaxSide-1 and MaxSide, for the algorithms that keep
\* no fractional error buffer (every tag but the two hybrid ones).
MaxSide == 5
WideDims == { <<n, n>> : n \in {MaxSide - 1, MaxSide} }
WideTags == Tags \ {"SIMPLE_EVEN_TONED_SCREENING", "EVEN_BETTER_SCREENING"}

\* uniform gray images and striped ones (a fill of period 3 gives diagonals)
GrayLevels == {0, 7, 24, 100, 140, 200, 248, 255}
WideFills ==
  { <<c>> : c \in Palette } \cup { << <<v, v, v, 255>> >> : v \in GrayLevels }
  \cup [1..3 -> Palette]

InitWide ==
  /\ \E wh \in WideDims :
       /\ width = wh[1]
       /\ height = wh[2]
       /\ \E fill \in WideFills : data = Buffer(wh[1] * wh[2], fill)
  /\ input = data
  /\ pre = data
  /\ first = data
  /\ algorithm = undefined
  /\ options = DefaultOptions
  /\ outcome = "idle"
  /\ ret = "none"
  /\ calls = 0
  /\ ed = edIdle
  /\ printData = <<>>
  /\ pic = noPic
  /\ sets = setsIdle
  /\ ble = bleIdle

DitherWide == CallWith(WideTags)

NextWide == DitherWide \/ Reload

SpecWide == InitWide /\ [][NextWide]_vars

(* ----------------- the noise algorithms on every draw ------------------- *)
\* Gray images of one pixel, or of two pixels side by side, dithered by
\* RANDOM or DITHERPUNK with any of the 256 values k/256 as the first draw
\* (the second draw is then (255-k)/256).
NoiseLevels == {0, 63, 64, 65, 66, 100, 126, 129, 130, 190, 191, 192, 193, 255}
\* the grays of those levels, and a colour of luminance 64 (the gray 64 has
\* luminance 63)
NoiseColours == { <<v, v, v, 255>> : v \in NoiseLevels } \cup { <<64, 64, 65, 255>> }
NoiseTags == {"RANDOM", "DITHERPUNK"}
NoiseStreams == { [n \in 0..1 |-> IF n = 0 THEN k ELSE 255 - k] : k \in 0..255 }

InitNoise ==
  /\ \E w \in {1, 2} :
       /\ width = w
       /\ height = 1
       /\ \E fill \in [1..w -> NoiseColours] :
            data = Buffer(w, fill)
  /\ input = data
  /\ pre = data
  /\ first = data
  /\ algorithm = undefined
  /\ options = DefaultOptions
  /\ outcome = "idle"
  /\ ret = "none"
  /\ calls = 0
  /\ ed = edIdle
  /\ printData = <<>>
  /\ pic = noPic
  /\ sets = setsIdle
  /\ ble = bleIdle

\* one call dither(image, tag) with a noise tag
DitherNoise ==
  /\ calls = 0
  /\ outcome = "idle"
  /\ \E a \in NoiseTags : \E rand \in NoiseStreams : Call(a, DefaultOptions, rand)

NextNoise == DitherNoise

SpecNoise == InitNoise /\ [][NextNoise]_vars

(* ------------ errorDiffusion followed one statement at a time ----------- *)
\* One pass of errorDiffusion as the interpreter runs it: the loop variables
\* x and y, the kernel entry k the inner loop is at, and the error of the
\* pixel being visited are in `ed'; ed.visited lists the pixels quantized so
\* far, ed.target is the coordinate the latest addError call was given,
\* ed.log lists the addError calls made so far as <<x, y, error, weight>>, and
\* ed.reads / ed.writes are the indices of data the latest step accessed.
MaxEdge == 3
\* images of one pixel, and of two or three rows of 2..MaxEdge pixels
EdDims == {<<1, 1>>} \cup ((2..MaxEdge) \X {2, 3})

\* the kernel table and the divisor each diffusion tag runs with
KernelOf(tag) ==
  CASE tag = "FLOYD_STEINBERG" -> floydSteinbergKernel
    [] tag = "ATKINSON" -> atkinsonKernel
    [] tag = "BURKES" -> burkesKernel
    [] tag = "DIFFUSION_ROW" -> diffusionRowKernel
    [] tag = "DIFFUSION_COLUMN" -> diffusionColumnKernel
    [] tag = "DIFFUSION_2D" -> diffusion2DKernel
    [] tag = "JARVIS_JUDICE_NINKE" -> jarvisJudiceNinkeKernel
    [] tag = "SIERRA2" -> sierra2Kernel
    [] tag = "STUCKI" -> stuckiKernel
DivisorOf(tag) ==
  CASE tag = "FLOYD_STEINBERG" -> floydSteinbergDivisor
    [] tag = "ATKINSON" -> atkinsonDivisor
    [] tag = "BURKES" -> burkesDivisor
    [] tag = "DIFFUSION_ROW" -> diffusionRowDivisor
    [] tag = "DIFFUSION_COLUMN" -> diffusionColumnDivisor
    [] tag = "DIFFUSION_2D" -> diffusion2DDivisor
    [] tag = "JARVIS_JUDICE_NINKE" -> jarvisJudiceNinkeDivisor
    [] tag = "SIERRA2" -> sierra2Divisor
    [] tag = "STUCKI" -> stuckiDivisor

\* one pixel of gray level v at pixel p of an opaque black image of n pixels
BrightLevels == {130, 255}
SpotBuffer(n, p, v) ==
  [i \in 0..(4 * n - 1) |->
     IF i % 4 = 3 THEN 255 ELSE IF i \div 4 = p THEN v ELSE 0]

EdFills == { << <<v, v, v, 255>> >> : v \in {100, 200} } \cup [1..3 -> Palette]
EdBuffers(n) ==
  { SpotBuffer(n, p, v) : p \in 0..(n - 1), v \in BrightLevels }
  \cup { Buffer(n, fill) : fill \in EdFills }

InitEd ==
  /\ \E wh \in EdDims :
       /\ width = wh[1]
       /\ height = wh[2]
       /\ data \in EdBuffers(wh[1] * wh[2])
  /\ input = data
  /\ pre = data
  /\ first = data
  /\ algorithm = undefined
  /\ options = DefaultOptions
  /\ outcome = "idle"
  /\ ret = "none"
  /\ calls = 0
  /\ ed = edIdle
  /\ printData = <<>>
  /\ pic = noPic
  /\ sets = setsIdle
  /\ ble = bleIdle

\* the indices of data one addError call reads and writes
addErrorAccess(w, h, x, y) ==
  IF x < 0 \/ x >= w \/ y < 0 \/ y >= h THEN [reads |-> {}, writes |-> {}]
  ELSE LET idx == (y * w + x) * 4
       IN  [reads |-> {idx}, writes |-> {idx, idx + 1, idx + 2}]

\* a scan that never reverses
rowReverseNever(serpentine, y) == FALSE

\* a scan that reverses the rows of even index
rowReverseEven(serpentine, y) == serpentine /\ (y % 2 = 0)

\* const reverse = serpentine && y % 2 === 1
rowReverse(serpentine, y) == serpentine /\ (y % 2 = 1)

\* dither(image, tag, {serpentine}) for a diffusion tag: toGrayscale, then the
\* y loop is entered and the x loop of row 0 initialised
StepEnter ==
  /\ ed.pc = "idle" /\ calls = 0 /\ outcome = "idle"
  /\ \E a \in DiffusionTags : \E s \in BOOLEAN :
       /\ algorithm' = a
       /\ options' = [DefaultOptions EXCEPT !.serpentine = s]
       /\ ed' = [edIdle EXCEPT !.pc = "pixel", !.y = 0,
                               !.x = IF rowReverse(s, 0) THEN width - 1 ELSE 0]
  /\ pre' = data
  /\ data' = toGrayscale(data)
  /\ UNCHANGED <<ble, width, height, input, outcome, ret, calls, first, printData,
                 pic, sets>>

\* the statements of the x loop body before the kernel loop
StepQuantize ==
  /\ ed.pc = "pixel"
  /\ LET idx == (ed.y * width + ed.x) * 4
         oldPixel == data[idx]
         newPixel == IF oldPixel < 128 THEN 0 ELSE 255
         error == oldPixel - newPixel
     IN  /\ data' = SetRGB(data, idx, newPixel)
         /\ ed' = [ed EXCEPT !.pc = "kernel", !.k = 1, !.error = error,
                             !.visited = Append(@, <<ed.x, ed.y>>),
                             !.reads = {idx},
                             !.writes = {idx, idx + 1, idx + 2}]
  /\ UNCHANGED <<ble, width, height, input, pre, algorithm, options, outcome, ret,
                 calls, first, printData, pic, sets>>

\* one iteration of the kernel loop: the addError call of entry ed.k
StepAddError ==
  /\ ed.pc = "kernel"
  /\ ed.k <= Len(KernelOf(algorithm))
  /\ LET entry == KernelOf(algorithm)[ed.k]
         dx == entry[1]
         dy == entry[2]
         weight == entry[3]
         effectiveDx == mirroredDx(rowReverse(options.serpentine, ed.y), dx)
         tx == ed.x + effectiveDx
         ty == ed.y + dy
         access == addErrorAccess(width, height, tx, ty)
     IN  /\ data' = addError(data, width, height, tx, ty, ed.error, weight,
                             DivisorOf(algorithm))
         /\ ed' = [ed EXCEPT !.k = @ + 1, !.target = <<tx, ty>>,
                             !.log = Append(@, <<tx, ty, ed.error, weight>>),
                             !.reads = access.reads, !.writes = access.writes]
  /\ UNCHANGED <<ble, width, height, input, pre, algorithm, options, outcome, ret,
                 calls, first, printData, pic, sets>>

\* the kernel loop is over: x++ or x--, at the end of the row y++, at the end
\* of the image `return image'
StepAdvance ==
  /\ ed.pc = "kernel"
  /\ ed.k > Len(KernelOf(algorithm))
  /\ LET reverse == rowReverse(options.serpentine, ed.y)
         inRow == IF reverse THEN ed.x - 1 >= 0 ELSE ed.x + 1 < width
         quiet == [ed EXCEPT !.reads = {}, !.writes = {}]
     IN  IF inRow
         THEN /\ ed' = [quiet EXCEPT !.pc = "pixel",
                                     !.x = IF reverse THEN @ - 1 ELSE @ + 1]
              /\ UNCHANGED <<outcome, ret, calls, first>>
         ELSE IF ed.y + 1 < height
         THEN /\ ed' = [quiet EXCEPT !.pc = "pixel", !.y = @ + 1,
                                     !.x = IF rowReverse(options.serpentine, ed.y + 1)
                                           THEN width - 1 ELSE 0]
              /\ UNCHANGED <<outcome, ret, calls, first>>
         ELSE /\ ed' = [quiet EXCEPT !.pc = "done"]
              /\ outcome' = "returned"
              /\ ret' = "image"
              /\ calls' = calls + 1
              /\ first' = data
  /\ UNCHANGED <<ble, width, height, data, input, pre, algorithm, options,
                 printData, pic, sets>>

NextEd == StepEnter \/ StepQuantize \/ StepAddError \/ StepAdvance

SpecEd == InitEd /\ [][NextEd]_vars

\* the pass followed step by step ends with the buffer dither computes
EdAgrees ==
  (ed.pc = "done")
    => data = dither(pre, width, height, algorithm, options, NoDraws).data

(* ------- simpleEvenTonedScreening followed one pixel at a time ---------- *)
\* One pass of simpleEvenTonedScreening as the interpreter runs it: the loop
\* variables x and y and the two row buffers are in `sets'; sets.errors lists
\* the error of every pixel processed so far, in scan order.  The buffers are
\* in units of 1/Unit, like the errors.
SetsDims == Dims \cup { <<2, 3>>, <<3, 2>>, <<3, 3>> }

InitSets ==
  /\ \E wh \in SetsDims :
       /\ width = wh[1]
       /\ height = wh[2]
       /\ \E fill \in Fills : data = Buffer(wh[1] * wh[2], fill)
  /\ input = data
  /\ pre = data
  /\ first = data
  /\ algorithm = undefined
  /\ options = DefaultOptions
  /\ outcome = "idle"
  /\ ret = "none"
  /\ calls = 0
  /\ ed = edIdle
  /\ printData = <<>>
  /\ pic = noPic
  /\ sets = setsIdle
  /\ ble = bleIdle

\* dither(image, SIMPLE_EVEN_TONED_SCREENING): toGrayscale, the two buffers
\* are allocated and the loops entered
SetsEnter ==
  /\ sets.pc = "idle" /\ calls = 0 /\ outcome = "idle"
  /\ algorithm' = "SIMPLE_EVEN_TONED_SCREENING"
  /\ pre' = data
  /\ data' = toGrayscale(data)
  /\ sets' = [setsIdle EXCEPT !.pc = "pixel", !.curRow = zeros(width),
                              !.nextRow = zeros(width)]
  /\ UNCHANGED <<ble, width, height, input, options, outcome, ret, calls, first,
                 ed, printData, pic>>

\* one iteration of the x loop
SetsPixel ==
  /\ sets.pc = "pixel"
  /\ sets.x < width
  /\ \E r \in {setsPixel([d |-> data, curRow |-> sets.curRow,
                          nextRow |-> sets.nextRow],
                         width, height, sets.x, sets.y)} :
       LET idx == (sets.y * width + sets.x) * 4
           error == data[idx] * Unit + sets.curRow[sets.x] - r.d[idx] * Unit
       IN  /\ data' = r.d
           /\ sets' = [sets EXCEPT !.x = @ + 1, !.curRow = r.curRow,
                                   !.nextRow = r.nextRow,
                                   !.errors = Append(@, error)]
  /\ UNCHANGED <<ble, width, height, input, pre, algorithm, options, outcome, ret,
                 calls, first, ed, printData, pic>>

\* the x loop is over: curRow = nextRow.slice(); nextRow.fill(0); y++, and at
\* the end of the image `return image'
SetsEndRow ==
  /\ sets.pc = "pixel"
  /\ sets.x >= width
  /\ IF sets.y + 1 < height
     THEN /\ sets' = [sets EXCEPT !.x = 0, !.y = @ + 1, !.curRow = sets.nextRow,
                                  !.nextRow = zeros(width)]
          /\ UNCHANGED <<outcome, ret, calls, first>>
     ELSE /\ sets' = [sets EXCEPT !.pc = "done", !.curRow = sets.nextRow,
                                  !.nextRow = zeros(width)]
          /\ outcome' = "returned"
          /\ ret' = "image"
          /\ calls' = calls + 1
          /\ first' = data
  /\ UNCHANGED <<ble, width, height, data, input, pre, algorithm, options, ed,
                 printData, pic>>

NextSets == SetsEnter \/ SetsPixel \/ SetsEndRow

SpecSets == InitSets /\ [][NextSets]_vars

\* the pass followed pixel by pixel ends with the buffer dither computes
SetsAgrees ==
  (sets.pc = "done")
    => data = dither(pre, width, height, algorithm, options, NoDraws).data

(* ------------- the print data (src/unnamed/part_001, the CLI) ----------- *)
\* The printable image is the file the CLI wrote before: IMAGE_WIDTH pixels
\* wide.  It is kept row by row; a row is a paper colour and one group of 8
\* pixels (the pixels 8*group .. 8*group+7) with colours of their own.
BYTES_PER_LINE == 70
IMAGE_WIDTH == BYTES_PER_LINE * 8
\* if (lines > 256) lines = 256: the most lines one raster block takes
MaxBlockLines == 256

\* the RGBA bytes of pixel (x, y) of the bitmap
bitmapPixel(p, x, y) ==
  LET row == p.rows[y + 1]
  IN  IF x \div 8 = row.group THEN row.pixels[(x % 8) + 1] ELSE row.paper

\* pic.getPixelColor(x, y): the four bytes of the pixel read as one unsigned
\* big-endian 32-bit number, held here as its two 16-bit halves <<hi, lo>>
getPixelColor(p, x, y) ==
  LET c == bitmapPixel(p, x, y)
  IN  <<c[1] * 256 + c[2], c[3] * 256 + c[4]>>

\* Jimp.intToRGBA(i)
intToRGBA(i) ==
  [r |-> i[1] \div 256, g |-> i[1] % 256, b |-> i[2] \div 256, a |-> i[2] % 256]

\* a | b on bytes
RECURSIVE BitOr(_, _)
BitOr(a, b) ==
  IF a = 0 THEN b
  ELSE IF b = 0 THEN a
  ELSE Max(a % 2, b % 2) + 2 * BitOr(a \div 2, b \div 2)

\* a reversed bit order: 1 << bit
bitMaskLowFirst(bit) == 2 ^ bit

\* 1 << (7 - bit)
bitMask(bit) == 2 ^ (7 - bit)

\* for (bit = 0; bit < 8; bit++) if (rgba.r === 0 && rgba.a !== 0) byte |= ...
RECURSIVE packBits(_, _, _, _, _)
packBits(p, x, line, bit, byte) ==
  IF bit >= 8 THEN byte
  ELSE LET rgba == intToRGBA(getPixelColor(p, x * 8 + bit, line))
       IN  packBits(p, x, line, bit + 1,
                    IF rgba.r = 0 /\ rgba.a # 0
                    THEN BitOr(byte, bitMask(bit))
                    ELSE byte)

\* if (byte === 0x0a) byte = 0x14
replaceLineFeed(byte) == IF byte = 10 THEN 20 ELSE byte

\* the BYTES_PER_LINE bytes of one image line
lineBytes(p, line) ==
  [x \in 1..BYTES_PER_LINE |-> replaceLineFeed(packBits(p, x - 1, line, 0, 0))]

\* while (lines > 0) { ... lines--; line++ }: the bytes this loop appends;
\* the i-th of them is byte (i-1) % BYTES_PER_LINE of the line that is
\* (i-1) \div BYTES_PER_LINE lines after the first
blockLines(p, line, lines) ==
  [i \in 1..(lines * BYTES_PER_LINE) |->
     lineBytes(p, line + ((i - 1) \div BYTES_PER_LINE))[((i - 1) % BYTES_PER_LINE) + 1]]

printHeader == <<27, 64, 27, 97, 0, 31, 17, 2, 4>>
\* a marker whose height byte is the number of lines itself
blockMarkerFullHeight(lines) == <<29, 118, 48, 0, BYTES_PER_LINE, 0, lines, 0>>
blockMarker(lines) == <<29, 118, 48, 0, BYTES_PER_LINE, 0, lines - 1, 0>>
printFooter == <<27, 100, 2, 27, 100, 2, 31, 17, 8, 31, 17, 14, 31, 17, 7, 31, 17, 9>>

\* while (remaining > 0) { lines = min(remaining, 256); marker; lines }: the
\* bytes this loop appends
RECURSIVE printBlocks(_, _, _)
printBlocks(p, remaining, line) ==
  IF remaining <= 0 THEN <<>>
  ELSE LET lines == Min(remaining, MaxBlockLines)
       IN  blockMarker(lines) \o blockLines(p, line, lines)
             \o printBlocks(p, remaining - lines, line + lines)

getPrintDataFromPort(p) ==
  printHeader \o printBlocks(p, p.height, 0) \o printFooter

\* Printable images: blank lines above one line that carries, in its first or
\* its last group, any of the 256 mixes of an ink colour and the paper colour;
\* and tall images of about one and two blocks, every line different: line y
\* has, in group y % BYTES_PER_LINE, ink where the number y \div BYTES_PER_LINE
\* + 1 has a binary 1.
MaxLines == 2
\* <<ink, paper>>: an ink colour has R = 0 and alpha # 0, a paper colour not
PrintColours ==
  { << <<0, 0, 0, 255>>, <<255, 255, 255, 255>> >>,
    << <<0, 255, 255, 1>>, <<0, 0, 0, 0>> >>,
    << <<0, 0, 0, 255>>, <<1, 0, 0, 255>> >> }
\* <<height, group>>: the first group of a single line, the last group of
\* the last of MaxLines lines
PrintShapes == { <<1, 0>>, <<MaxLines, BYTES_PER_LINE - 1>> }

TallHeights ==
  { MaxBlockLines - 1, MaxBlockLines, MaxBlockLines + 1, 2 * MaxBlockLines,
    2 * MaxBlockLines + 1 }
TallPic(h) ==
  [height |-> h,
   rows |-> [y \in 1..h |->
               [group |-> (y - 1) % BYTES_PER_LINE,
                paper |-> <<255, 255, 255, 255>>,
                pixels |-> [k \in 1..8 |->
                              IF ((((y - 1) \div BYTES_PER_LINE) + 1) \div (2 ^ (8 - k))) % 2 = 1
                              THEN <<0, 0, 0, 255>>
                              ELSE <<255, 255, 255, 255>>]]]]

InitPrint ==
  /\ \/ \E hg \in PrintShapes, c \in PrintColours :
         \E px \in [1..8 -> {c[1], c[2]}] :
           pic = [height |-> hg[1],
                  rows |-> [y \in 1..hg[1] |->
                              [group |-> hg[2], paper |-> c[2],
                               pixels |-> IF y = hg[1] THEN px
                                          ELSE [k \in 1..8 |-> c[2]]]]]
     \/ \E h \in TallHeights : pic = TallPic(h)
  /\ printData = <<>>
  /\ width = 1
  /\ height = 1
  /\ data = Buffer(1, << <<0, 0, 0, 255>> >>)
  /\ input = data
  /\ pre = data
  /\ first = data
  /\ algorithm = undefined
  /\ options = DefaultOptions
  /\ outcome = "idle"
  /\ ret = "none"
  /\ calls = 0
  /\ ed = edIdle
  /\ sets = setsIdle
  /\ ble = bleIdle

\* const data = await getPrintDataFromPort(printableImgPath)
GetPrintData ==
  /\ printData = <<>>
  /\ pic.height > 0
  /\ printData' = getPrintDataFromPort(pic)
  /\ UNCHANGED <<ble, width, height, data, pre, algorithm, options, outcome, ret,
                 calls, first, input, ed, pic, sets>>

NextPrint == GetPrintData

SpecPrint == InitPrint /\ [][NextPrint]_vars

(* ------------- the device menu (src/unnamed/part_001, the CLI) ---------- *)
\* A string is kept as the sequence of its characters, a choice value as the
\* sequence of its words.  An advertisement without a localName has no such
\* field; a characteristic's properties array is kept as a set.
SCAN_AGAIN_SELECTION == <<"__scan_again__">>
QUIT_SELECTION == <<"__quit__">>

\* the menu is entered at most MaxScans scanDevices invocations long
MaxScans == 4

\* The peripherals that may be in range: a printer whose second
\* characteristic is the first writable one, a device that only offers
\* writeWithoutResponse, a second device of the printer's name that offers
\* nothing to write to, and two writable devices whose names are blank and
\* missing.
Peripherals ==
  { [id |-> 1, advertisement |-> [localName |-> <<"M">>],
     characteristics |-> << {"read"}, {"write", "notify"}, {"write"} >>],
    [id |-> 2, advertisement |-> [localName |-> <<"L">>],
     characteristics |-> << {"read", "notify"}, {"writeWithoutResponse"} >>],
    [id |-> 3, advertisement |-> [localName |-> <<"M">>],
     characteristics |-> << {"read"} >>],
    [id |-> 4, advertisement |-> [localName |-> <<" ", " ">>],
     characteristics |-> << {"write"} >>],
    [id |-> 5, advertisement |-> [txPowerLevel |-> 0],
     characteristics |-> << {"write"} >>] }

\* scanDevices(scanDurationInMs) up to its `await delay': the found devices
\* are forgotten, one more discover listener is registered, scanning is
\* started and a timer is set.  An invocation is kept with the time its timer
\* has left, whether the menu loop awaits it, the time noble has been scanning
\* during its delay so far, and the other invocations that stopped the
\* scanning during its delay.
scanDevices(b, scanDurationInMs, awaited) ==
  [b EXCEPT !.discoveredDevices = <<>>,
            !.listeners = @ + 1,
            !.scanning = TRUE,
            !.scans = @ + 1,
            !.invocations = @ \cup {[id |-> b.scans + 1, ms |-> scanDurationInMs,
                                     left |-> scanDurationInMs,
                                     awaited |-> awaited, pc |-> "delay",
                                     scanned |-> 0, cutBy |-> {}]}]

\* the discover listener; every registered listener does the same.  A found
\* peripheral is kept with the number of the scan that found it.
onDiscover(b, peripheral) ==
  IF \/ "localName" \notin DOMAIN peripheral.advertisement
     \/ \A k \in 1..Len(peripheral.advertisement.localName) :
          peripheral.advertisement.localName[k] = " "
  THEN b
  ELSE [b EXCEPT !.discoveredDevices =
          [n \in DOMAIN @ \cup {peripheral.advertisement.localName} |->
             IF n = peripheral.advertisement.localName
             THEN [id |-> peripheral.id, scan |-> b.scans]
             ELSE @[n]]]

\* the values of the choices selectDevice offers
selectDevice(b) ==
  DOMAIN b.discoveredDevices \cup {SCAN_AGAIN_SELECTION, QUIT_SELECTION}

\* the characteristics that pass the filter, of which the caller takes the
\* first; none stands for undefined
getWritableCharacteristicAny(peripheral) ==
  LET p == CHOOSE q \in Peripherals : q.id = peripheral.id
  IN  SubSeq([k \in 1..Len(p.characteristics) |->
                [peripheral |-> p.id, uuid |-> k,
                 properties |-> p.characteristics[k]]], 1, 1)
getWritableCharacteristic(peripheral) ==
  LET p == CHOOSE q \in Peripherals : q.id = peripheral.id
      writable(c) == "write" \in c.properties
      found == SelectSeq([k \in 1..Len(p.characteristics) |->
                            [peripheral |-> p.id, uuid |-> k,
                             properties |-> p.characteristics[k]]], writable)
  IN  SubSeq(found, 1, Min(1, Len(found)))

\* getDeviceCharacteristicMenu is called with any of the peripherals in range
InitBle ==
  /\ \E near \in SUBSET Peripherals :
       ble = [bleIdle EXCEPT !.pc = "call", !.nearby = near]
  /\ printData = <<>>
  /\ pic = noPic
  /\ width = 1
  /\ height = 1
  /\ data = Buffer(1, << <<0, 0, 0, 255>> >>)
  /\ input = data
  /\ pre = data
  /\ first = data
  /\ algorithm = undefined
  /\ options = DefaultOptions
  /\ outcome = "idle"
  /\ ret = "none"
  /\ calls = 0
  /\ ed = edIdle
  /\ sets = setsIdle

\* let scanDurationInMs = 5000; do { await scanDevices(scanDurationInMs)
EnterMenu ==
  /\ ble.pc = "call"
  /\ ble' = [scanDevices([ble EXCEPT !.scanDurationInMs = 5000], 5000, TRUE)
               EXCEPT !.pc = "awaitScan"]
  /\ UNCHANGED <<width, height, data, pre, algorithm, options, outcome, ret,
                 calls, first, input, ed, printData, pic, sets>>

\* noble emits `discover' for a peripheral in range while it is scanning
Discover ==
  /\ ble.scanning
  /\ ble.listeners > 0
  /\ \E peripheral \in ble.nearby : ble' = onDiscover(ble, peripheral)
  /\ UNCHANGED <<width, height, data, pre, algorithm, options, outcome, ret,
                 calls, first, input, ed, printData, pic, sets>>

\* delay(ms): 5000 ms pass while every pending timer still has time left
Delay ==
  /\ ble.invocations # {}
  /\ \A i \in ble.invocations : i.pc = "delay" /\ i.left > 0
  /\ ble' = [ble EXCEPT !.invocations =
               { [i EXCEPT !.left = @ - 5000,
                           !.scanned = @ + (IF ble.scanning THEN 5000 ELSE 0)] :
                 i \in @ }]
  /\ UNCHANGED <<width, height, data, pre, algorithm, options, outcome, ret,
                 calls, first, input, ed, printData, pic, sets>>

\* the timer of an invocation has run out: await noble.stopScanningAsync()
ScanStop ==
  /\ \E i \in ble.invocations :
       /\ i.pc = "delay"
       /\ i.left = 0
       /\ \A j \in ble.invocations : (j.pc = "delay" /\ j.left = 0) => i.id <= j.id
       /\ ble' = [ble EXCEPT !.scanning = FALSE,
                             !.invocations =
                               { IF j = i THEN [j EXCEPT !.pc = "stopping"]
                                 ELSE IF j.pc = "delay" /\ j.left > 0
                                 THEN [j EXCEPT !.cutBy = @ \cup {i.id}]
                                 ELSE j : j \in @ }]
  /\ UNCHANGED <<width, height, data, pre, algorithm, options, outcome, ret,
                 calls, first, input, ed, printData, pic, sets>>

\* spinner.stop(true) and the invocation is over; if the menu loop awaited
\* it: const choice = await selectDevice(), the menu is put up
ScanReturn ==
  /\ \E i \in ble.invocations :
       /\ i.pc = "stopping"
       /\ ble' = IF i.awaited /\ ble.pc = "awaitScan"
                 THEN [ble EXCEPT !.invocations = @ \ {i},
                                  !.pc = "select",
                                  !.menu = selectDevice(ble),
                                  !.last = [id |-> i.id, ms |-> i.ms,
                                            scanned |-> i.scanned,
                                            cutBy |-> i.cutBy,
                                            after |-> ble.choice]]
                 ELSE [ble EXCEPT !.invocations = @ \ {i}]
  /\ UNCHANGED <<width, height, data, pre, algorithm, options, outcome, ret,
                 calls, first, input, ed, printData, pic, sets>>

\* the user has chosen from the menu: scan again (and around the loop into
\* the next await scanDevices(scanDurationInMs)), quit, or a device
Select ==
  /\ ble.pc = "select"
  /\ \E choice \in ble.menu :
       IF choice = SCAN_AGAIN_SELECTION
       THEN /\ ble.scans + 2 <= MaxScans
            /\ ble' = [scanDevices(scanDevices([ble EXCEPT !.scanDurationInMs = 10000],
                                               5000, FALSE),
                                   10000, TRUE)
                         EXCEPT !.pc = "awaitScan", !.choice = choice]
       ELSE IF choice = QUIT_SELECTION
       THEN ble' = [ble EXCEPT !.pc = "exited", !.choice = choice]
       ELSE ble' = [ble EXCEPT !.pc = "connect", !.choice = choice,
                               !.peripheral = ble.discoveredDevices[choice]]
  /\ UNCHANGED <<width, height, data, pre, algorithm, options, outcome, ret,
                 calls, first, input, ed, printData, pic, sets>>

\* const characteristic = await getWritableCharacteristic(peripheral); then
\* either promptTryAgain() is put up or the characteristic is returned
Connected ==
  /\ ble.pc = "connect"
  /\ \E characteristic \in {getWritableCharacteristic(ble.peripheral)} :
       IF characteristic = <<>>
       THEN ble' = [ble EXCEPT !.pc = "tryAgain", !.characteristic = characteristic]
       ELSE ble' = [ble EXCEPT !.pc = "returned", !.characteristic = characteristic,
                               !.selectedPeripheral = ble.peripheral]
  /\ UNCHANGED <<width, height, data, pre, algorithm, options, outcome, ret,
                 calls, first, input, ed, printData, pic, sets>>

\* const tryAgain = await promptTryAgain(): continue (into the next await
\* scanDevices(scanDurationInMs)) or process.exit()
TryAgain ==
  /\ ble.pc = "tryAgain"
  /\ \E tryAgain \in BOOLEAN :
       IF tryAgain
       THEN /\ ble.scans + 1 <= MaxScans
            /\ ble' = [scanDevices(ble, ble.scanDurationInMs, TRUE)
                         EXCEPT !.pc = "awaitScan", !.tryAgain = tryAgain]
       ELSE ble' = [ble EXCEPT !.pc = "exited", !.tryAgain = tryAgain]
  /\ UNCHANGED <<width, height, data, pre, algorithm, options, outcome, ret,
                 calls, first, input, ed, printData, pic, sets>>

NextBle ==
  \/ EnterMenu
  \/ Discover
  \/ Delay
  \/ ScanStop
  \/ ScanReturn
  \/ Select
  \/ Connected
  \/ TryAgain

SpecBle == InitBle /\ [][NextBle]_vars

(* ======================= properties of the engine ======================= *)
Pixels == 0..(width * height - 1)

\* a call has been made and the buffer is as that call left it
Ended == calls > 0 /\ outcome # "idle"

\* pixel p of buffer d is pure black or pure white
Binary(d, p) ==
  /\ d[4 * p] \in {0, 255}
  /\ d[4 * p + 1] = d[4 * p]
  /\ d[4 * p + 2] = d[4 * p]

\* C1: after dither returns for a built-in tag other than GRAYSCALE, every
\* pixel has R = G = B and that value is 0 or 255.
C1_BinaryOutput ==
  (Ended /\ outcome = "returned" /\ algorithm \in BuiltInTags \ {"GRAYSCALE"})
    => \A p \in Pixels : Binary(data, p)

\* a serpentine error diffusion over two rows of a coloured image has returned
\* and left both black and white pixels
C1_Witness ==
  /\ Ended /\ outcome = "returned"
  /\ algorithm \in DiffusionTags /\ options.serpentine
  /\ height >= 2 /\ width >= 2
  /\ \E p \in Pixels : ~Binary(pre, p)
  /\ \E p, q \in Pixels : data[4 * p] = 0 /\ data[4 * q] = 255

\* C2: a call with a built-in tag that returns leaves every alpha sample,
\* width, height and the buffer length as they were, and returns the image
\* object it was given.
C2_Frame ==
  [][(calls' = calls + 1 /\ outcome' = "returned" /\ algorithm' \in BuiltInTags)
       => /\ width' = width
          /\ height' = height
          /\ DOMAIN data' = DOMAIN data
          /\ \A i \in DOMAIN data : (i % 4 = 3) => data'[i] = data[i]
          /\ ret' = "image"]_vars

\* a built-in call has changed the colour of a half-transparent pixel and
\* of a fully transparent one
C2_Witness ==
  /\ Ended /\ outcome = "returned" /\ algorithm \in BuiltInTags
  /\ ret = "image"
  /\ \E p, q \in Pixels :
       /\ data[4 * p + 3] = 128 /\ data[4 * p] # pre[4 * p]
       /\ data[4 * q + 3] = 0 /\ data[4 * q] # pre[4 * q]

RECURSIVE WeightSum(_)
WeightSum(kernel) ==
  IF kernel = <<>> THEN 0 ELSE Head(kernel)[3] + WeightSum(Tail(kernel))

\* C3 as stated: the weights of the kernel of every diffusion tag sum to its
\* divisor.
C3_SumEqualsDivisor ==
  (Ended /\ algorithm \in DiffusionTags)
    => WeightSum(KernelOf(algorithm)) = DivisorOf(algorithm)

\* C4 as stated: a call whose tag is outside the closed tag set (another
\* string, or no tag at all) fails with UnknownAlgorithm whatever the options
\* are, and the buffer is as it was before the call.
C4_UnknownTagFails ==
  (Ended /\ algorithm \notin TagSet)
    => (outcome = "UnknownAlgorithm" /\ data = pre)

\* C5 as stated: a call with the tag CUSTOM and no function in options.custom
\* fails with MissingCustomHandler and the buffer is as it was.
C5_MissingCustomHandler ==
  (Ended /\ algorithm = "CUSTOM" /\ options.custom \notin CustomFunctions)
    => (outcome = "MissingCustomHandler" /\ data = pre)

\* C6 as stated: a call with the tag CUSTOM and a function in options.custom
\* returns that function's result, the buffer being what the function makes
\* of the buffer passed in (which has not been converted to grayscale).
C6_CustomApplied ==
  (Ended /\ algorithm = "CUSTOM" /\ options.custom \in CustomFunctions)
    => /\ outcome = "returned"
       /\ data = applyCustom(options.custom, pre).data
       /\ ret = applyCustom(options.custom, pre).ret

\* C7 as stated: a call with a built-in tag that raises an error has not
\* modified any sample of the buffer.
C7_NoFailureMidPass ==
  (Ended /\ algorithm \in BuiltInTags /\ outcome # "returned")
    => data = pre

\* the tags whose output is a function of the buffer and the options
DeterministicCall ==
  \/ algorithm \in DiffusionTags
  \/ algorithm \in {"THRESHOLD", "GRAYSCALE", "ORDERED_BAYER",
                     "EVEN_TONED_SCREENING", "SIMPLE_EVEN_TONED_SCREENING"}
  \/ algorithm = "EVEN_BETTER_SCREENING" /\ options.tmmat.given

LumOf(d, p) == Lum(d[4 * p], d[4 * p + 1], d[4 * p + 2])

\* the k-th smallest luminance of buffer d (k = 1 the smallest): the value
\* with fewer than k luminances below it and at least k not above it
KthLum(d, k) ==
  CHOOSE v \in { LumOf(d, p) : p \in Pixels } :
    /\ Cardinality({ p \in Pixels : LumOf(d, p) < v }) < k
    /\ Cardinality({ p \in Pixels : LumOf(d, p) <= v }) >= k

\* twice the median luminance of buffer d
TwiceMedian(d) ==
  LET n == width * height
  IN  IF n % 2 = 1 THEN 2 * KthLum(d, (n + 1) \div 2)
      ELSE KthLum(d, n \div 2) + KthLum(d, (n \div 2) + 1)

\* C9: THRESHOLD makes a pixel 0 if its luminance is below the median of the
\* image's luminances (middle element for an odd count, mean of the two
\* middle elements for an even count) and 255 otherwise.
C9_MedianThreshold ==
  (Ended /\ outcome = "returned" /\ algorithm = "THRESHOLD")
    => \A p \in Pixels :
         /\ Binary(data, p)
         /\ data[4 * p] = IF 2 * LumOf(pre, p) < TwiceMedian(pre) THEN 0 ELSE 255

\* the 2x2 image with luminances 10, 10, 250, 250: median 130, the two low
\* pixels black and the two high ones white
C9_Witness ==
  /\ Ended /\ outcome = "returned" /\ algorithm = "THRESHOLD"
  /\ width = 2 /\ height = 2
  /\ <<LumOf(pre, 0), LumOf(pre, 1), LumOf(pre, 2), LumOf(pre, 3)>>
       = <<10, 10, 250, 250>>
  /\ TwiceMedian(pre) = 260
  /\ <<data[0], data[4], data[8], data[12]>> = <<0, 0, 255, 255>>

\* the matrix M of the ordered dither, rows top to bottom
BayerM ==
  << <<0, 8, 2, 10>>, <<12, 4, 14, 6>>, <<3, 11, 1, 9>>, <<15, 7, 13, 5>> >>
BayerCell(p) == BayerM[((p \div width) % 4) + 1][((p % width) % 4) + 1]

\* C10: ORDERED_BAYER makes pixel (x,y) 0 if its luminance is below
\* (M[y mod 4][x mod 4] + 0.5) * 255/16 and 255 otherwise; on a uniform image
\* the white pixels are exactly those whose cell threshold is at most the
\* luminance.
C10_BayerThreshold ==
  (Ended /\ outcome = "returned" /\ algorithm = "ORDERED_BAYER")
    => /\ \A p \in Pixels :
            /\ Binary(data, p)
            /\ data[4 * p] =
                 IF 32 * LumOf(pre, p) < (2 * BayerCell(p) + 1) * 255 THEN 0 ELSE 255
       /\ (\A p \in Pixels : LumOf(pre, p) = LumOf(pre, 0))
            => { p \in Pixels : data[4 * p] = 255 }
                 = { p \in Pixels : (2 * BayerCell(p) + 1) * 255 <= 32 * LumOf(pre, 0) }

\* a uniform mid-gray image wider and taller than the matrix: the tile wraps
\* around and the output has black and white pixels
C10_Witness ==
  /\ Ended /\ outcome = "returned" /\ algorithm = "ORDERED_BAYER"
  /\ width > 4 /\ height > 4
  /\ \A p \in Pixels : LumOf(pre, p) = 100
  /\ data[0] = 255 /\ data[4] = 0 /\ data[4 * 4] = 255
  /\ data[4 * (4 * width)] = 255 /\ data[4 * (4 * width + 4)] = 255

\* C11: ORDERED_BAYER applied to its own output leaves every sample as it is.
C11_BayerIdempotent ==
  (calls >= 2 /\ outcome = "returned" /\ algorithm = "ORDERED_BAYER" /\ pre = first)
    => data = pre

\* the ordered dither has run on its own black-and-white output, which
\* differs from the coloured input of the first call
C11_Witness ==
  /\ calls >= 2 /\ outcome = "returned" /\ algorithm = "ORDERED_BAYER"
  /\ pre = first /\ first # input /\ data = pre
  /\ \E p \in Pixels : ~Binary(input, p)
  /\ \E p, q \in Pixels : pre[4 * p] = 0 /\ pre[4 * q] = 255

\* coordinate t = <<x, y>> lies in the image
InBounds(t) == t[1] >= 0 /\ t[1] < width /\ t[2] >= 0 /\ t[2] < height

\* the indices of the R, G and B samples of the pixel at coordinate t
SamplesOf(t) == { 4 * (t[2] * width + t[1]) + c : c \in 0..2 }

\* the step is one addError call of the kernel loop
IsAddErrorStep == ed.pc = "kernel" /\ ed'.pc = "kernel" /\ ed'.k = ed.k + 1

\* C12: in every diffusion variant, serpentine or not, every index of the
\* buffer that is read or written lies in [0, width*height*4); an addError
\* call whose target coordinate is outside the image changes nothing, and
\* one whose target is inside changes no sample of any other pixel (no wrap
\* into a neighbouring row); on a 1x1 image only the single pixel is
\* touched; and a pass that has begun can always go on until it returns.
C12_TargetsInBounds ==
  /\ [](/\ ed.reads \cup ed.writes \subseteq 0..(width * height * 4 - 1)
        /\ (width = 1 /\ height = 1) => ed.reads \cup ed.writes \subseteq {0, 1, 2}
        /\ ed.pc \in {"pixel", "kernel"} => ENABLED NextEd)
  /\ [][IsAddErrorStep =>
          IF InBounds(ed'.target)
          THEN /\ ed'.writes \subseteq SamplesOf(ed'.target)
               /\ \A i \in DOMAIN data :
                    (i \notin SamplesOf(ed'.target)) => data'[i] = data[i]
          ELSE /\ data' = data
               /\ ed'.reads = {} /\ ed'.writes = {}]_vars

\* a serpentine Jarvis-Judice-Ninke pass over a 1x1 image has returned: all
\* twelve targets were outside the image and only the one pixel was visited
C12_Witness ==
  /\ ed.pc = "done" /\ outcome = "returned"
  /\ width = 1 /\ height = 1
  /\ algorithm = "JARVIS_JUDICE_NINKE" /\ options.serpentine
  /\ ed.visited = << <<0, 0>> >>
  /\ ed.k = Len(KernelOf(algorithm)) + 1
  /\ ~InBounds(ed.target)

\* buffer d is black but for one pixel of luminance >= 128 at the left or
\* right edge of a row
SpotAtEdge(d) ==
  \E p \in Pixels :
    /\ (p % width) \in {0, width - 1}
    /\ LumOf(d, p) >= 128
    /\ \A q \in Pixels \ {p} : d[4 * q] = 0 /\ d[4 * q + 1] = 0 /\ d[4 * q + 2] = 0

\* every pixel of buffer d has luminance v
Uniform(d, v) == \A p \in Pixels : LumOf(d, p) = v

\* what FLOYD_STEINBERG with serpentine off makes of buffer d
LinearOutput(d) ==
  floydSteinberg(d, width, height, [DefaultOptions EXCEPT !.serpentine = FALSE])

\* a FLOYD_STEINBERG pass with serpentine on has returned
SerpentineDone ==
  ed.pc = "done" /\ algorithm = "FLOYD_STEINBERG" /\ options.serpentine

\* C13 as stated: on a multi-row image that is black but for one bright
\* pixel at the left or right edge of a row, FLOYD_STEINBERG with serpentine
\* on gives an output that differs from the output with serpentine off.
C13_SerpentineDiffers ==
  (SerpentineDone /\ height >= 2 /\ SpotAtEdge(pre))
    => data # LinearOutput(pre)

\* C13, as the code behaves: on such an image the outputs with serpentine on
\* and off are the same (the bright pixel becomes 255, its negative error
\* saturates at 0 in the black pixels, which stay 0); the two outputs do
\* differ on a uniform image of luminance 100 with at least two rows and
\* two columns.
C13_SerpentineOnSpotAndGray ==
  /\ (SerpentineDone /\ height >= 2 /\ SpotAtEdge(pre))
       => /\ data = LinearOutput(pre)
          /\ \A p \in Pixels :
               Binary(data, p) /\ (data[4 * p] = 255 <=> pre[4 * p] # 0)
  /\ (SerpentineDone /\ height >= 2 /\ width >= 2 /\ Uniform(pre, 100))
       => data # LinearOutput(pre)

\* the serpentine pass over a three-row image with one bright pixel at the
\* right edge of the middle row has returned
C13_Witness ==
  /\ SerpentineDone /\ height = 3 /\ width = 3
  /\ SpotAtEdge(pre) /\ LumOf(pre, 5) = 255
  /\ data[4 * 5] = 255

\* the TM array of the call is all zeros and has an entry for every
\* (y mod tmheight, x mod tmwid) the image addresses
ZeroTMInEffect ==
  LET m == options.tmmat.m
      tmwid == IF options.tmwid = 0 THEN 256 ELSE options.tmwid
      tmheight == IF options.tmheight = 0 THEN 256 ELSE options.tmheight
  IN  /\ options.tmmat.given
      /\ \A r \in DOMAIN m : \A c \in DOMAIN m[r] : m[r][c] = 0
      /\ \A p \in Pixels :
           /\ ((p \div width) % tmheight) + 1 \in DOMAIN m
           /\ ((p % width) % tmwid) + 1 \in DOMAIN m[((p \div width) % tmheight) + 1]

\* the error-diffusion executor run left to right on buffer d with the
\* kernel (1,0,7), (0,1,5), (1,1,1) over 16
ThreeWeightOutput(d) ==
  errorDiffusion(toGrayscale(d), width, height,
                 << <<1, 0, 7>>, <<0, 1, 5>>, <<1, 1, 1>> >>, 16, FALSE)

\* C14 as stated: EVEN_BETTER_SCREENING given an all-zero TM array leaves
\* exactly the buffer the error-diffusion executor leaves when run left to
\* right with threshold 128 and the kernel (1,0,7), (0,1,5), (1,1,1) over 16.
C14_ZeroTMIsDiffusion ==
  (Ended /\ outcome = "returned" /\ algorithm = "EVEN_BETTER_SCREENING"
     /\ ZeroTMInEffect)
    => data = ThreeWeightOutput(pre)

\* floor(0.299*r + 0.587*g + 0.114*b), the sum taken exactly
ExactLum(r, g, b) == (299 * r + 587 * g + 114 * b) \div 1000

\* C15 as stated: GRAYSCALE sets R = G = B = floor(0.299*R + 0.587*G +
\* 0.114*B) of the pixel's values before the call, with no quantization,
\* and the result is within 0..255.
C15_GrayscaleFormula ==
  (Ended /\ outcome = "returned" /\ algorithm = "GRAYSCALE")
    => \A p \in Pixels :
         LET lum == ExactLum(pre[4 * p], pre[4 * p + 1], pre[4 * p + 2])
         IN  /\ lum \in 0..255
             /\ data[4 * p] = lum
             /\ data[4 * p + 1] = lum
             /\ data[4 * p + 2] = lum

\* largest matrix size the tables are examined for
MaxMatrixSize == 8

\* m is an N x N table (rows and columns 0..N-1) holding each rank
\* 0..N*N-1 exactly once
IsRankTable(m, N) ==
  /\ DOMAIN m = 0..(N - 1)
  /\ \A i \in 0..(N - 1) : DOMAIN m[i] = 0..(N - 1)
  /\ \A r \in 0..(N * N - 1) :
       Cardinality({ c \in (0..(N - 1)) \X (0..(N - 1)) : m[c[1]][c[2]] = r }) = 1

\* the matrix of every size from 1 to MaxMatrixSize is such a table
AllRankTables ==
  \A N \in 1..MaxMatrixSize : IsRankTable(generateEvenTonedMatrix(N), N)

\* the matrix size an EVEN_TONED_SCREENING call runs with
SizeInEffect == IF options.matrixSize = 0 THEN 8 ELSE options.matrixSize

\* C16: for every size N >= 1, generateEvenTonedMatrix(N) is an N x N table
\* that contains each rank 0..N*N-1 exactly once: the matrix the screening
\* call has used is one, and so is the matrix of every size up to
\* MaxMatrixSize.
C16_MatrixIsPermutation ==
  (Ended /\ algorithm = "EVEN_TONED_SCREENING" /\ SizeInEffect >= 1)
    => /\ IsRankTable(screeningMatrices[SizeInEffect], SizeInEffect)
       /\ AllRankTables

\* a screening call with a 3 x 3 matrix has returned; the centre cell has
\* rank 0 and the last corner rank 8
C16_Witness ==
  /\ Ended /\ outcome = "returned" /\ algorithm = "EVEN_TONED_SCREENING"
  /\ SizeInEffect = 3
  /\ screeningMatrices[3][1][1] = 0
  /\ screeningMatrices[3][2][2] = 8
  /\ data # pre

\* pixel (x, y) of the printable image is ink: R = 0 and alpha # 0
Ink(x, y) ==
  LET c == bitmapPixel(pic, x, y) IN c[1] = 0 /\ c[4] # 0
\* the data byte of group g (0-based) of image line y (0-based)
DataByte(y, g) ==
  printData[Len(printHeader) + 8 * ((y \div 256) + 1) + y * BYTES_PER_LINE + g + 1]
\* bit n of byte b
BitOf(b, n) == (b \div (2 ^ n)) % 2
Printed == printData # <<>>
\* group g of line y has ink exactly at pixels 4 and 6: the pattern 00001010
LineFeedPattern(y, g) == \A k \in 0..7 : Ink(8 * g + k, y) <=> k \in {4, 6}

\* C17 (as stated): for every ink pattern of a group, bit 7-k of the emitted
\* byte is set exactly when pixel k of the group is ink.
C17_BitPerPixel ==
  Printed =>
    \A y \in 0..(pic.height - 1) : \A g \in 0..(BYTES_PER_LINE - 1) :
      \A k \in 0..7 : BitOf(DataByte(y, g), 7 - k) = 1 <=> Ink(8 * g + k, y)

\* C17: for every ink pattern of a group but 00001010, bit 7-k of the emitted
\* byte is set exactly when pixel k of the group is ink; the pattern 00001010
\* (the byte 0x0A) is emitted as 0x14, the same two pixels one place to the left.
C17_BitPerPixelButLineFeed ==
  Printed =>
    \A y \in 0..(pic.height - 1) : \A g \in 0..(BYTES_PER_LINE - 1) :
      IF LineFeedPattern(y, g)
      THEN DataByte(y, g) = 20
      ELSE \A k \in 0..7 :
             BitOf(DataByte(y, g), 7 - k) = 1 <=> Ink(8 * g + k, y)

\* a printed image whose last group has ink at its leftmost pixel only, on
\* transparent paper, and comes out as the byte 10000000
C17_Witness ==
  /\ Printed
  /\ pic.height = 2
  /\ \A k \in 0..7 : Ink(8 * (BYTES_PER_LINE - 1) + k, 1) <=> k = 0
  /\ bitmapPixel(pic, 0, 0) = <<0, 0, 0, 0>>
  /\ DataByte(1, BYTES_PER_LINE - 1) = 128
  /\ DataByte(0, 0) = 0

\* the step quantizes the pixel the x loop is at
IsQuantizeStep == ed.pc = "pixel" /\ ed'.pc = "kernel"

\* value v after the logged additions i.. to the pixel at coordinate t, each
\* the integer part of v + error*weight/divisor kept within 0..255
RECURSIVE AfterAdditions(_, _, _)
AfterAdditions(v, i, t) ==
  IF i > Len(ed.log) THEN v
  ELSE LET a == ed.log[i]
           n == v * DivisorOf(algorithm) + a[3] * a[4]
           s == IF n <= 0 THEN 0
                ELSE IF n >= 255 * DivisorOf(algorithm) THEN 255
                ELSE n \div DivisorOf(algorithm)
       IN  AfterAdditions(IF <<a[1], a[2]>> = t THEN s ELSE v, i + 1, t)

\* C18: the step on the visited pixel with value old writes new = 0 if
\* old < 128 else 255 into R, G and B and keeps error = old - new; each
\* kernel entry with an in-bounds target adds error*weight/divisor to the
\* target's R, G and B, the sum kept within [0,255] and stored as an 8-bit
\* sample (its integer part); and the value a pixel is quantized from is its
\* grayscale luminance after the additions earlier-visited pixels made to it.
C18_QuantizeAndDiffuse ==
  /\ [][IsQuantizeStep =>
          LET idx == 4 * (ed.y * width + ed.x)
              new == IF data[idx] < 128 THEN 0 ELSE 255
          IN  /\ \A i \in SamplesOf(<<ed.x, ed.y>>) : data'[i] = new
              /\ ed'.error = data[idx] - new
              /\ \A i \in DOMAIN data :
                   i \notin SamplesOf(<<ed.x, ed.y>>) => data'[i] = data[i]]_vars
  /\ [][(IsAddErrorStep /\ InBounds(ed'.target)) =>
          LET idx == 4 * (ed'.target[2] * width + ed'.target[1])
              weight == KernelOf(algorithm)[ed.k][3]
              divisor == DivisorOf(algorithm)
              n == data[idx] * divisor + ed.error * weight
              v == data'[idx]
          IN  /\ \A i \in SamplesOf(ed'.target) : data'[i] = v
              /\ v \in 0..255
              /\ n <= 0 => v = 0
              /\ n >= 255 * divisor => v = 255
              /\ (0 < n /\ n < 255 * divisor) =>
                   (v * divisor <= n /\ n < (v + 1) * divisor)
              /\ ed'.error = ed.error]_vars
  /\ [](ed.pc = "kernel" =>
          LET p == ed.y * width + ed.x
              old == AfterAdditions(LumOf(pre, p), 1, <<ed.x, ed.y>>)
          IN  /\ data[4 * p] = (IF old < 128 THEN 0 ELSE 255)
              /\ ed.error = old - data[4 * p])

\* a Floyd-Steinberg pass over a uniform image of luminance 100 is at the
\* middle pixel, which took additions before it was quantized, and has just
\* added 5/16 of its error to the pixel below, which is neither 0 nor 255
C18_Witness ==
  /\ ed.pc = "kernel" /\ ed.k = 4 /\ ed.target = <<1, 2>>
  /\ algorithm = "FLOYD_STEINBERG"
  /\ ed.x = 1 /\ ed.y = 1 /\ width >= 3 /\ height >= 3
  /\ \A p \in Pixels : LumOf(pre, p) = 100
  /\ Cardinality({ i \in 1..Len(ed.log) :
                     <<ed.log[i][1], ed.log[i][2]>> = <<ed.x, ed.y>> }) >= 2
  /\ ed.error # 0
  /\ InBounds(ed.target)
  /\ data[4 * (2 * width + 1)] \in 1..254

\* row y is scanned right to left
Mirrored(y) == options.serpentine /\ y % 2 = 1
\* the i-th pixel (from 1) of the scan: rows top to bottom, a row from x = 0
\* upward, or from x = width-1 downward when it is mirrored
ScanAt(i) ==
  LET y == (i - 1) \div width
      c == (i - 1) % width
  IN  <<IF Mirrored(y) THEN width - 1 - c ELSE c, y>>

\* C19: rows are visited top to bottom and every pixel exactly once; with
\* serpentine the rows of odd y are visited from x = width-1 down to 0 and
\* the error of pixel (x,y) goes to (x - dx, y + dy) for each kernel entry
\* (dx,dy,w), in table order; rows of even y, and all rows without
\* serpentine, are visited from x = 0 upward with targets (x + dx, y + dy).
C19_ScanOrder ==
  ed.pc # "idle" =>
    LET L == Len(KernelOf(algorithm)) IN
    /\ \A i \in 1..Len(ed.visited) : ed.visited[i] = ScanAt(i)
    /\ ed.pc = "pixel" => <<ed.x, ed.y>> = ScanAt(Len(ed.visited) + 1)
    /\ ed.pc = "kernel" =>
         /\ <<ed.x, ed.y>> = ScanAt(Len(ed.visited))
         /\ Len(ed.log) = (Len(ed.visited) - 1) * L + ed.k - 1
    /\ ed.pc = "done" =>
         /\ Len(ed.visited) = width * height
         /\ Len(ed.log) = width * height * L
         /\ \A p \in Pixels :
              Cardinality({ i \in 1..Len(ed.visited) :
                              ed.visited[i] = <<p % width, p \div width>> }) = 1
    /\ \A j \in 1..Len(ed.log) :
         LET from == ed.visited[((j - 1) \div L) + 1]
             entry == KernelOf(algorithm)[((j - 1) % L) + 1]
         IN  /\ ed.log[j][1] = (IF Mirrored(from[2]) THEN from[1] - entry[1]
                                ELSE from[1] + entry[1])
             /\ ed.log[j][2] = from[2] + entry[2]
             /\ ed.log[j][4] = entry[3]

\* a serpentine Burkes pass over a 3x3 image has returned: row 1 was visited
\* from (2,1) to (0,1), and the first entry (1,0,8) sent the error of (2,1)
\* to (1,1) and that of (0,2) to (1,2)
C19_Witness ==
  /\ ed.pc = "done"
  /\ algorithm = "BURKES" /\ options.serpentine
  /\ width = 3 /\ height = 3
  /\ ed.visited[4] = <<2, 1>> /\ ed.visited[6] = <<0, 1>>
  /\ ed.visited[7] = <<0, 2>>
  /\ ed.log[3 * 7 + 1][1] = 1 /\ ed.log[3 * 7 + 1][2] = 1
  /\ ed.log[6 * 7 + 1][1] = 1 /\ ed.log[6 * 7 + 1][2] = 2

\* the j-th addError call was made while the pixels 1..VisitedAt(j) of the
\* scan had been quantized
VisitedAt(j) == ((j - 1) \div Len(KernelOf(algorithm))) + 1

\* C20: in every diffusion variant, serpentine or not, every in-bounds kernel
\* target of the pixel being visited has not been visited yet; so no step
\* writes R, G or B of a pixel that has been quantized, and the value it was
\* given then (0 or 255) is the one the pass returns.
C20_TargetsUnvisited ==
  /\ [](ed.pc # "idle" =>
          /\ \A j \in 1..Len(ed.log) :
               InBounds(ed.log[j]) =>
                 \A i \in 1..VisitedAt(j) :
                   ed.visited[i] # <<ed.log[j][1], ed.log[j][2]>>
          /\ \A i \in 1..Len(ed.visited) :
               \A s \in SamplesOf(ed.visited[i]) : data[s] \in {0, 255})
  /\ [][\A i \in 1..Len(ed.visited) :
          \A s \in SamplesOf(ed.visited[i]) : data'[s] = data[s]]_vars

\* a serpentine Stucki pass is on the mirrored row 1 of a 3x3 image: it has
\* quantized (1,1), with (2,1) and the whole of row 0 behind it, and has just
\* aimed an addition at (0,1), which is still to be visited
C20_Witness ==
  /\ ed.pc = "kernel" /\ ed.k = 2
  /\ algorithm = "STUCKI" /\ options.serpentine
  /\ width = 3 /\ height = 3
  /\ ed.x = 1 /\ ed.y = 1
  /\ ed.target = <<0, 1>>
  /\ Len(ed.visited) = 5
  /\ \A i \in 1..5 : ed.visited[i] # ed.target

\* four times the squared Euclidean distance of cell (i, j) to the centre
\* ((N-1)/2, (N-1)/2) of an N x N matrix
CentreDistance(N, i, j) ==
  (2 * i - (N - 1)) * (2 * i - (N - 1)) + (2 * j - (N - 1)) * (2 * j - (N - 1))

\* in the N x N table m a cell strictly closer to the centre has a strictly
\* smaller rank, and of two cells at equal distance the one with the smaller
\* row, then the smaller column, has the smaller rank
IsDistanceRanked(m, N) ==
  \A a \in (0..(N - 1)) \X (0..(N - 1)) : \A b \in (0..(N - 1)) \X (0..(N - 1)) :
    LET da == CentreDistance(N, a[1], a[2])
        db == CentreDistance(N, b[1], b[2])
    IN  /\ da < db => m[a[1]][a[2]] < m[b[1]][b[2]]
        /\ (da = db /\ a[1] < b[1]) => m[a[1]][a[2]] < m[b[1]][b[2]]
        /\ (da = db /\ a[1] = b[1] /\ a[2] < b[2]) => m[a[1]][a[2]] < m[b[1]][b[2]]

\* the matrix of every size from 1 to MaxMatrixSize is ranked so
AllDistanceRanked ==
  \A N \in 1..MaxMatrixSize : IsDistanceRanked(generateEvenTonedMatrix(N), N)

\* C21: in the even-toned rank matrix of size N, ranks follow ascending
\* Euclidean distance to the centre ((N-1)/2, (N-1)/2): a cell strictly
\* closer to the centre has a strictly smaller rank, and among cells at equal
\* distance the smaller row index, then the smaller column index, has the
\* smaller rank; for the matrix a screening call has used and for every size
\* up to MaxMatrixSize.
C21_RanksFollowDistance ==
  (Ended /\ algorithm = "EVEN_TONED_SCREENING" /\ SizeInEffect >= 1)
    => /\ IsDistanceRanked(screeningMatrices[SizeInEffect], SizeInEffect)
       /\ AllDistanceRanked

\* a screening call with a 2 x 2 matrix has returned: its four cells are
\* equally far from the centre and are ranked row by row
C21_Witness ==
  /\ Ended /\ outcome = "returned" /\ algorithm = "EVEN_TONED_SCREENING"
  /\ SizeInEffect = 2
  /\ screeningMatrices[2][0] = [j \in 0..1 |-> j]
  /\ screeningMatrices[2][1] = [j \in 0..1 |-> 2 + j]
  /\ CentreDistance(2, 0, 1) = CentreDistance(2, 1, 0)

\* C22: for every matrix size N >= 2, every threshold
\* (rank + 0.5) * 255/(N*N-1) the screening call compares against is at most
\* 255, so a pixel of luminance 255 is output white at every cell.
C22_WhiteStaysWhite ==
  (Ended /\ outcome = "returned" /\ algorithm = "EVEN_TONED_SCREENING"
     /\ SizeInEffect >= 2)
    => /\ \A p \in Pixels :
            LET cell == screeningMatrices[SizeInEffect]
                          [(p \div width) % SizeInEffect][(p % width) % SizeInEffect]
            IN  (2 * cell + 1) * 255 <= 2 * 255 * (SizeInEffect * SizeInEffect - 1)
       /\ \A p \in Pixels : LumOf(pre, p) = 255 => data[4 * p] = 255

\* the error of pixel (c, r), which the pass has processed, in units of 1/Unit
ErrorAt(c, r) == sets.errors[r * width + c + 1]
\* the step is one iteration of the x loop
IsSetsPixelStep == sets.pc = "pixel" /\ sets'.pc = "pixel" /\ sets'.x = sets.x + 1
Columns == 0..(width - 1)

\* C23: when the first pixel of row y is processed, the current-row buffer
\* holds exactly the 5/16 and 1/16 shares diffused from row y-1 (all zero for
\* row 0) and the next-row buffer is all zero; a pixel's 7/16 share goes only
\* to column x+1 of the current row, its 5/16 and 1/16 shares to columns x
\* and x+1 of the next row, and shares aimed at column >= width or
\* row >= height are dropped: the buffers keep their width columns.
C23_RowBuffers ==
  /\ []((sets.pc = "pixel" /\ sets.x = 0) =>
          /\ DOMAIN sets.curRow = Columns /\ DOMAIN sets.nextRow = Columns
          /\ \A c \in Columns : sets.nextRow[c] = 0
          /\ \A c \in Columns :
               sets.curRow[c] * 16 =
                 (IF sets.y = 0 THEN 0
                  ELSE 5 * ErrorAt(c, sets.y - 1)
                       + (IF c > 0 THEN ErrorAt(c - 1, sets.y - 1) ELSE 0)))
  /\ [][IsSetsPixelStep =>
          LET e == sets'.errors[Len(sets'.errors)]
              below == sets.y + 1 < height
          IN  /\ DOMAIN sets'.curRow = Columns /\ DOMAIN sets'.nextRow = Columns
              /\ \A c \in Columns :
                   (sets'.curRow[c] - sets.curRow[c]) * 16 =
                     (IF c = sets.x + 1 THEN 7 * e ELSE 0)
              /\ \A c \in Columns :
                   (sets'.nextRow[c] - sets.nextRow[c]) * 16 =
                     (IF below /\ c = sets.x THEN 5 * e
                      ELSE IF below /\ c = sets.x + 1 THEN e ELSE 0)]_vars

\* the pass is at the first pixel of row 1 of an image three pixels wide:
\* the middle column holds shares of two different non-zero errors of row 0
C23_Witness ==
  /\ sets.pc = "pixel" /\ sets.x = 0 /\ sets.y = 1
  /\ width = 3 /\ height >= 2
  /\ ErrorAt(0, 0) # 0 /\ ErrorAt(1, 0) # 0 /\ ErrorAt(0, 0) # ErrorAt(1, 0)
  /\ sets.curRow[1] # 0 /\ sets.curRow[2] # 0

\* values of the levels option (0: not given)
LevelChoices == {0, 2, 3, 4, 16}

C25_NoiseBand ==
  (Ended /\ outcome = "returned" /\ algorithm = "DITHERPUNK")
    => \A p \in Pixels :
         /\ Binary(data, p)
         /\ LumOf(pre, p) <= 64 => data[4 * p] = 0
         /\ LumOf(pre, p) >= 192 => data[4 * p] = 255

\* DITHERPUNK has returned on two pixels of luminance 65 and 191: the first
\* came out white and the second black
C25_Witness ==
  /\ Ended /\ outcome = "returned" /\ algorithm = "DITHERPUNK"
  /\ width = 2
  /\ LumOf(pre, 0) = 65 /\ data[0] = 255
  /\ LumOf(pre, 1) = 191 /\ data[4] = 0

\* the pixels of the buffer that are white
WhitePixels == { p \in Pixels : data[4 * p] = 255 }

\* C26: after THRESHOLD every pixel whose luminance is at least the median is
\* white, so at least half of the pixels (rounded up) are white; in
\* particular an image of uniform luminance, an all-black one included,
\* becomes entirely white.
C26_HalfWhite ==
  (Ended /\ outcome = "returned" /\ algorithm = "THRESHOLD")
    => /\ \A p \in Pixels :
            2 * LumOf(pre, p) >= TwiceMedian(pre) => (Binary(data, p) /\ data[4 * p] = 255)
       /\ 2 * Cardinality(WhitePixels) >= width * height
       /\ (\A p \in Pixels : LumOf(pre, p) = LumOf(pre, 0)) => WhitePixels = Pixels

\* THRESHOLD has returned on a 5x5 image that was black all over and is now
\* white all over
C26_Witness ==
  /\ Ended /\ outcome = "returned" /\ algorithm = "THRESHOLD"
  /\ width = 5 /\ height = 5
  /\ \A p \in Pixels : LumOf(pre, p) = 0
  /\ WhitePixels = Pixels

\* pixel p of buffer d is gray: R = G = B
IsGray(d, p) == d[4 * p] = d[4 * p + 1] /\ d[4 * p + 1] = d[4 * p + 2]

\* C27: grayscale conversion is idempotent: a pixel with R = G = B = v keeps
\* the luminance v, so the grayscale pass changes nothing on an image that is
\* already gray, such as the output of an earlier GRAYSCALE call.
C27_GrayscaleIdempotent ==
  (Ended /\ outcome = "returned" /\ algorithm = "GRAYSCALE")
    => /\ \A p \in Pixels : IsGray(pre, p) => data[4 * p] = pre[4 * p]
       /\ (\A p \in Pixels : IsGray(pre, p)) => data = pre

\* the heights of the raster blocks found in the print data from position
\* pos on: a block is an 8-byte marker, whose 7th byte is its height minus
\* one, and BYTES_PER_LINE bytes per line; the blocks end where the footer
\* begins (<<-1>> if the data does not end so)
RECURSIVE BlockHeights(_)
BlockHeights(pos) ==
  IF pos = Len(printData) - Len(printFooter) + 1 THEN <<>>
  ELSE IF pos + 7 > Len(printData) - Len(printFooter) THEN <<-1>>
  ELSE <<printData[pos + 6] + 1>>
         \o BlockHeights(pos + 8 + BYTES_PER_LINE * (printData[pos + 6] + 1))

RECURSIVE SumOf(_)
SumOf(s) == IF s = <<>> THEN 0 ELSE Head(s) + SumOf(Tail(s))

\* where the marker of block b (from 0) starts when the blocks before it
\* have the heights hs
RECURSIVE BlockStart(_, _)
BlockStart(hs, b) ==
  IF b = 0 THEN Len(printHeader) + 1
  ELSE BlockStart(hs, b - 1) + 8 + BYTES_PER_LINE * hs[b]

\* the byte group g of line y stands for: bit 7-k for ink at pixel k, and
\* 0x14 for the pattern 0x0A
GroupByte(y, g) ==
  LET b == SumOf([k \in 1..8 |-> IF Ink(8 * g + k - 1, y) THEN 2 ^ (8 - k) ELSE 0])
  IN  IF b = 10 THEN 20 ELSE b

\* C28: an image of height H is framed as consecutive raster blocks of at
\* most 256 lines: the block heights are each in 1..256 and sum to H, there
\* are ceil(H/256) blocks, each marker's height byte is (block lines - 1) and
\* lies in 0..255, and every image row is emitted exactly once, in
\* top-to-bottom order, as 70 data bytes.
C28_BlockFraming ==
  Printed =>
    \E hs \in {BlockHeights(Len(printHeader) + 1)} :
      /\ \A b \in 1..Len(hs) : hs[b] \in 1..256
      /\ SumOf(hs) = pic.height
      /\ Len(hs) = (pic.height + 255) \div 256
      /\ Len(printData) = Len(printHeader) + 8 * Len(hs) + 70 * pic.height
                            + Len(printFooter)
      /\ \A b \in 1..Len(hs) :
           LET at == BlockStart(hs, b - 1)
           IN  /\ printData[at + 6] = hs[b] - 1
               /\ printData[at + 6] \in 0..255
               /\ <<printData[at], printData[at + 1], printData[at + 2]>> = <<29, 118, 48>>
               /\ \A r \in 0..(hs[b] - 1) : \A g \in 0..69 :
                    printData[at + 8 + 70 * r + g] = GroupByte(SumOf(SubSeq(hs, 1, b - 1)) + r, g)

\* an image of 513 lines has been framed as blocks of 256, 256 and 1 lines
C28_Witness ==
  /\ Printed
  /\ pic.height = 2 * MaxBlockLines + 1
  /\ BlockHeights(Len(printHeader) + 1) = <<256, 256, 1>>
  /\ printData[Len(printHeader) + 7] = 255
  /\ printData[Len(printData) - Len(printFooter) - BYTES_PER_LINE - 1] = 0

\* the menu loop is over
MenuLeft(b) == b.pc \in {"returned", "exited"}

\* what getDeviceCharacteristicMenu has returned is writable, belongs to the
\* peripheral the user selected, and that was found by the latest scan
ReturnedWritable ==
  (ble.pc = "returned") =>
    /\ Len(ble.characteristic) = 1
    /\ "write" \in ble.characteristic[1].properties
    /\ ble.characteristic[1].peripheral = ble.selectedPeripheral.id
    /\ ble.selectedPeripheral = ble.peripheral
    /\ ble.choice \in ble.menu \ {SCAN_AGAIN_SELECTION, QUIT_SELECTION}
    /\ \E p \in ble.nearby :
         /\ p.id = ble.selectedPeripheral.id
         /\ p.advertisement.localName = ble.choice
    /\ ble.selectedPeripheral.scan = ble.last.id
    /\ ble.last.id = ble.scans

\* one step of the menu loop: a menu is put up only when an awaited scan is
\* over; a choice leads to the next awaited scan, to the exit on Quit or to
\* the chosen device; an unwritable device leads to the question, and the
\* answer to the next awaited scan or to the exit; nothing else ends the loop
MenuStep ==
  /\ (ble'.pc = "select" /\ ble.pc # "select")
       => /\ ble.pc = "awaitScan"
          /\ ble'.last.id = ble.scans
          /\ ble'.menu = DOMAIN ble.discoveredDevices
                           \cup {SCAN_AGAIN_SELECTION, QUIT_SELECTION}
  /\ (ble.pc = "select" /\ ble'.pc # "select")
       => \/ /\ ble'.choice = SCAN_AGAIN_SELECTION
             /\ ble'.pc = "awaitScan"
             /\ ble'.scans > ble.scans
          \/ /\ ble'.choice = QUIT_SELECTION
             /\ ble'.pc = "exited"
          \/ /\ ble'.choice \in DOMAIN ble.discoveredDevices
             /\ ble'.pc = "connect"
  /\ (ble.pc = "connect" /\ ble'.pc # "connect")
       => ble'.pc \in {"returned", "tryAgain"}
  /\ (ble.pc = "tryAgain" /\ ble'.pc # "tryAgain")
       => \/ /\ ble'.tryAgain
             /\ ble'.pc = "awaitScan"
             /\ ble'.scans > ble.scans
          \/ /\ ~ble'.tryAgain
             /\ ble'.pc = "exited"
  /\ (MenuLeft(ble') /\ ~MenuLeft(ble))
       => \/ ble'.pc = "returned" /\ ble.pc = "connect"
          \/ ble'.pc = "exited" /\ ble.pc = "select" /\ ble'.choice = QUIT_SELECTION
          \/ ble'.pc = "exited" /\ ble.pc = "tryAgain" /\ ~ble'.tryAgain
  /\ MenuLeft(ble) => ble' = ble

C30_ScanRunsItsDuration ==
  /\ Cardinality(ble.invocations) <= 1
  /\ \A i \in ble.invocations : i.cutBy = {}
  /\ (ble.pc = "select")
       => /\ ble.last.cutBy = {}
          /\ ble.last.scanned = ble.last.ms
          /\ (ble.last.after = SCAN_AGAIN_SELECTION) => ble.last.ms = 10000

====
